---- MODULE Spec2Model ----
(***************************************************************************)
(* Model of @janiscommerce/sns, class SnsTrigger (src/lib/sns-trigger.js,  *)
(* the current variant, lines 1-426) and of the helpers it calls.          *)
(*                                                                         *)
(* JSON texts are not materialised character by character: a text is kept  *)
(* as the value it serialises ([text |-> value]) and its length is         *)
(* computed the way JSON.stringify lays the value out.                     *)
(***************************************************************************)
EXTENDS Integers, Sequences, FiniteSets, TLC

VARIABLES
    session,           \* this.session?.clientCode, "" when there is none
    pc,                \* position of the running operation
    op,                \* the operation called: "publishEvents" or "publishEvent"
    topicArn,          \* first argument of publishEvent / publishEvents
    events,            \* the events handed to the operation so far (kinds)
    parsedEvents,      \* parseEvents: the batches built so far
    currentBatchSize,  \* parseEvents: running size of the open batch
    randomDraws,       \* number of randomId values drawn in this process
    tasks,             \* one worker of the dispatcher per batch
    offload,           \* formatAndUploadEventWithS3Content, per entry Id
    cache,             \* micro-memoize caches of ParameterStore
    bucketList,        \* the value the cached getParameterValue promise holds
    ramCalls,          \* ListResourcesCommand requests sent
    ssmCalls,          \* GetParameterCommand requests sent
    result             \* what the operation settled with

parseVars == <<events, parsedEvents, currentBatchSize, randomDraws>>
dispatchVars == <<tasks, offload, cache, bucketList, ramCalls, ssmCalls, result>>
vars == <<session, pc, op, topicArn, parseVars, dispatchVars>>

----------------------------------------------------------------------------
(* Program constants *)

MAX_CONCURRENCY == 25
SNS_MESSAGE_LIMIT_SIZE == 256 * 1024
SNS_MAX_BATCH_SIZE == 10
estimatedBucketInfoSize == 90
RandomIdDigits == 13

(* Bounds of the model *)

MaxParseEvents == 15   \* events per publishEvents call, partitioning only
MaxLarge == 2          \* of which events that are not small
MaxEvents == 3         \* events per publishEvents call that is dispatched
MaxOversize == 2       \* of which events over the size limit
MaxSnsFailed == 1      \* entries a publish-batch answer reports as failed
MaxPoolEvents == 27    \* events, one per batch, when the dispatcher's ceiling is exercised
MaxCacheEvents == 2    \* events per publishEvents call in a sequence of operations
MaxCacheDraws == 3     \* events formatted over a sequence of operations
MaxBatchEvents == 10   \* events of an operation that fills one batch
MaxBatchOversize == 1  \* oversize events among them
MaxBucketEvents == 2   \* events of an operation whose destination list varies
MaxSiblingEvents == 2  \* oversize events of an operation, each batch with offloads

----------------------------------------------------------------------------
(* Arithmetic on sequences *)

RECURSIVE SeqSum(_)
SeqSum(s) == IF s = <<>> THEN 0 ELSE Head(s) + SeqSum(Tail(s))

RECURSIVE Flatten(_)
Flatten(ss) == IF ss = <<>> THEN <<>> ELSE Head(ss) \o Flatten(Tail(ss))

Commas(n) == IF n > 0 THEN n - 1 ELSE 0

(* JSON.stringify layout: "key":value members, braces, commas *)
Member(k, valueLen) == Len(k) + 2 + 1 + valueLen
ObjectLen(memberLens) == 2 + SeqSum(memberLens) + Commas(Len(memberLens))
StringLen(s) == Len(s) + 2

----------------------------------------------------------------------------
(* Values of an event's content *)

StrV(ch, n) == [t |-> "str", ch |-> ch, n |-> n]   \* ch.repeat(n)
NoBucket == [none |-> TRUE]
LocV(path, bucketInfo) == [t |-> "loc", path |-> path, bucket |-> bucketInfo]

ValueLen(v) ==
    IF v.t = "str"
    THEN 2 + Len(v.ch) * v.n
    ELSE ObjectLen(<<Member("path", StringLen(v.path))>> \o
                   (IF v.bucket = NoBucket THEN <<>>
                    ELSE <<Member("bucketName", StringLen(v.bucket.bucketName)),
                           Member("region", StringLen(v.bucket.region))>>))

(* number of double quotes in the serialisation of a value *)
ValueQuotes(v) ==
    IF v.t = "str" THEN 2
    ELSE 4 + (IF v.bucket = NoBucket THEN 0 ELSE 8)

(* an object is a sequence of [k, v] members, in insertion order *)
JsonLen(obj) == ObjectLen([i \in 1..Len(obj) |-> Member(obj[i].k, ValueLen(obj[i].v))])
JsonQuotes(obj) == SeqSum([i \in 1..Len(obj) |-> 2 + ValueQuotes(obj[i].v)])

Keys(obj) == {obj[i].k : i \in 1..Len(obj)}
HasKey(obj, k) == k \in Keys(obj)
Get(obj, k) == obj[CHOOSE i \in 1..Len(obj) : obj[i].k = k].v

(* { ...obj, [k]: v }: an existing key keeps its place and takes the new value *)
Put(obj, k, v) ==
    IF HasKey(obj, k)
    THEN [i \in 1..Len(obj) |-> IF obj[i].k = k THEN [k |-> k, v |-> v] ELSE obj[i]]
    ELSE Append(obj, [k |-> k, v |-> v])

RECURSIVE Spread(_, _)
Spread(obj, more) ==
    IF more = <<>> THEN obj
    ELSE Spread(Put(obj, Head(more).k, Head(more).v), Tail(more))

JSONstringify(value) == [text |-> value]
JSONparse(string) == string.text
(* length of a text, and of the same text embedded as a string in another text *)
TextLen(string) == JsonLen(string.text)
EmbeddedLen(string) == 2 + JsonLen(string.text) + JsonQuotes(string.text)

----------------------------------------------------------------------------
(* The events the operations are called with *)

Huge == SNS_MESSAGE_LIMIT_SIZE
Half == 150 * 1024

EventKinds == {"small", "half", "big", "bigfixed", "bigclash", "bigtagged"}
ParseKinds == {"small", "half", "big", "bigfixed"}
DispatchKinds == {"small", "half", "big", "bigclash", "bigtagged"}
LargeKinds == EventKinds \ {"small"}
OversizeKinds == {"big", "bigfixed", "bigclash", "bigtagged"}

Event(kind) ==
    CASE kind = "small" ->
           [content |-> <<[k |-> "foo", v |-> StrV("bar", 1)], [k |-> "bar", v |-> StrV("bar", 1)]>>,
            hasFixed |-> TRUE, payloadFixedProperties |-> <<"foo">>, subject |-> "", attributes |-> <<>>]
      [] kind = "half" ->
           [content |-> <<[k |-> "foo", v |-> StrV("x", Half)]>>,
            hasFixed |-> FALSE, payloadFixedProperties |-> <<>>, subject |-> "", attributes |-> <<>>]
      [] kind = "big" ->
           [content |-> <<[k |-> "bar", v |-> StrV("bar", 1)], [k |-> "foo", v |-> StrV("x", Huge)]>>,
            hasFixed |-> TRUE, payloadFixedProperties |-> <<"bar", "baz">>, subject |-> "", attributes |-> <<>>]
      [] kind = "bigfixed" ->
           [content |-> <<[k |-> "bar", v |-> StrV("bar", 1)], [k |-> "foo", v |-> StrV("y", Huge)]>>,
            hasFixed |-> TRUE, payloadFixedProperties |-> <<"foo">>, subject |-> "s", attributes |-> <<>>]
      [] kind = "bigclash" ->
           [content |-> <<[k |-> "contentS3Location", v |-> StrV("mine", 1)],
                          [k |-> "foo", v |-> StrV("z", Huge)]>>,
            hasFixed |-> TRUE, payloadFixedProperties |-> <<"contentS3Location">>, subject |-> "",
            attributes |-> <<>>]
      [] kind = "bigtagged" ->
           [content |-> <<[k |-> "bar", v |-> StrV("bar", 1)], [k |-> "foo", v |-> StrV("x", Huge)]>>,
            hasFixed |-> TRUE, payloadFixedProperties |-> <<"bar">>, subject |-> "",
            attributes |-> <<[k |-> "janis-client", v |-> "otherClient"],
                             [k |-> "topicName", v |-> "OtherTopic"]>>]

IsSmall(kind) == kind = "small"
CountOf(kinds, limited) == Cardinality({i \in 1..Len(kinds) : kinds[i] \in limited})

----------------------------------------------------------------------------
(* Environment *)

JANIS_SERVICE_NAME == "service-name"
Today == "2025/03/06"
NoSession == ""
Sessions == {"defaultClient", NoSession}

IdAlphabet == <<"A", "B", "C", "D", "E", "F", "G", "H", "I", "J", "K", "L", "M",
                "N", "O", "P", "Q", "R", "S", "T", "U", "V", "W", "X", "Y", "Z",
                "1", "2", "3", "4", "5", "6", "7", "8", "9">>

(* the draw-th value of randomValue(13); successive draws are distinct *)
randomValue(draw) == "JANISRANDOM" \o IdAlphabet[(((draw - 1) \div 35) % 35) + 1]
                                   \o IdAlphabet[((draw - 1) % 35) + 1]

(* an ARN is kept as its text *)
StandardArn == [text |-> "arn:aws:sns:us-east-1:123456789012:MyTopic"]
FifoArn == [text |-> "arn:aws:sns:us-east-1:123456789012:MyTopic.fifo"]
InvalidArn == [text |-> "arn:invalid-arn"]
ShortAccountArn == [text |-> "arn:aws:sns:us-east-1:12345678901:MyTopic"]
TopicArns == {StandardArn, InvalidArn, ShortAccountArn}

INVALID_SNS_ARN == "INVALID_SNS_ARN"

Digits == {"0", "1", "2", "3", "4", "5", "6", "7", "8", "9"}
Letters ==
    {"a", "b", "c", "d", "e", "f", "g", "h", "i", "j", "k", "l", "m",
     "n", "o", "p", "q", "r", "s", "t", "u", "v", "w", "x", "y", "z",
     "A", "B", "C", "D", "E", "F", "G", "H", "I", "J", "K", "L", "M",
     "N", "O", "P", "Q", "R", "S", "T", "U", "V", "W", "X", "Y", "Z"}

(* every character of s is in the class *)
AllIn(s, class) == \A i \in 1..Len(s) : SubSeq(s, i, i) \in class

(* the position of the first ch in s at or after from, 0 if there is none *)
RECURSIVE IndexOf(_, _, _)
IndexOf(s, ch, from) ==
    IF from > Len(s) THEN 0
    ELSE IF SubSeq(s, from, from) = ch THEN from ELSE IndexOf(s, ch, from + 1)

(* String.prototype.split with a one-character separator *)
RECURSIVE split(_, _)
split(s, separator) ==
    LET at == IndexOf(s, separator, 1)
    IN  IF at = 0 THEN <<s>>
        ELSE <<SubSeq(s, 1, at - 1)>> \o split(SubSeq(s, at + 1, Len(s)), separator)

endsWith(s, suffix) ==
    /\ Len(s) >= Len(suffix)
    /\ SubSeq(s, Len(s) - Len(suffix) + 1, Len(s)) = suffix

(* a mutant, used by the check of C11: every identifier is accepted *)
isValidSnsArn_Any(arn) == TRUE

(* /^arn:aws:sns:[a-zA-Z0-9-]+:\d{12}:[a-zA-Z0-9]+(\.fifo)?$/ : no class of
   the pattern holds ':', so the text matches when it has six ':'-separated
   parts and each part matches its piece of the pattern *)
isValidSnsArn(arn) ==
    LET parts == split(arn.text, ":")
        last == parts[6]
        name == IF endsWith(last, ".fifo") THEN SubSeq(last, 1, Len(last) - 5) ELSE last
    IN  /\ Len(parts) = 6
        /\ parts[1] = "arn"
        /\ parts[2] = "aws"
        /\ parts[3] = "sns"
        /\ Len(parts[4]) > 0
        /\ AllIn(parts[4], Letters \cup Digits \cup {"-"})
        /\ Len(parts[5]) = 12
        /\ AllIn(parts[5], Digits)
        /\ Len(name) > 0
        /\ AllIn(name, Letters \cup Digits)

(* a mutant, used by the check of C22: the last part is returned as it is *)
getTopicNameFromArn_KeepSuffix(snsArn) ==
    LET arnParts == split(snsArn.text, ":")
    IN  arnParts[Len(arnParts)]

(* the name the function returns when it does not throw, lines 412-418 *)
getTopicNameFromArn(snsArn) ==
    LET arnParts == split(snsArn.text, ":")
        snsTopic == arnParts[Len(arnParts)]
    IN  IF endsWith(snsTopic, ".fifo")
        THEN SubSeq(snsTopic, 1, Len(snsTopic) - 5)
        ELSE snsTopic

(* identifiers put together from parts that match their piece of the
   pattern (ok) and parts that do not; name is the topic the identifier
   names when every part matches *)
Part(text, ok) == [text |-> text, ok |-> ok]
ArnPrefixes ==
    {Part("arn:aws:sns", TRUE), Part("arn:aws:sqs", FALSE), Part("arn", FALSE),
     Part("xarn:aws:sns", FALSE)}
ArnRegions ==
    {Part("us-east-1", TRUE), Part("eu-west-2", TRUE), Part("", FALSE), Part("us_east_1", FALSE)}
ArnAccounts ==
    {Part("123456789012", TRUE), Part("12345678901", FALSE), Part("1234567890123", FALSE),
     Part("12345678901a", FALSE)}
ArnTopics ==
    {Part("MyTopic", TRUE), Part("Topic2", TRUE), Part("fifo", TRUE), Part("", FALSE),
     Part("My-Topic", FALSE), Part("My.Topic", FALSE)}
ArnSuffixes ==
    {Part("", TRUE), Part(".fifo", TRUE), Part(".FIFO", FALSE), Part(".fifo.fifo", FALSE),
     Part(":extra", FALSE)}

ArnCases ==
    {[text |-> p.text \o ":" \o r.text \o ":" \o a.text \o ":" \o t.text \o x.text,
      ok |-> p.ok /\ r.ok /\ a.ok /\ t.ok /\ x.ok,
      name |-> t.text] :
        p \in ArnPrefixes, r \in ArnRegions, a \in ArnAccounts, t \in ArnTopics,
        x \in ArnSuffixes}

(* what getTopicNameFromArn throws for an identifier that is not valid *)
InvalidArnError(snsArn) ==
    [error |-> INVALID_SNS_ARN, message |-> "Invalid SNS ARN: " \o snsArn.text]

----------------------------------------------------------------------------
(* Formatting *)

(* a mutant, used by the check of C20: the tenant code is used as it is *)
getContentS3Path_NoFallback(clientCode, topicName, draw) ==
    "topics" \o "/" \o clientCode
             \o "/" \o JANIS_SERVICE_NAME
             \o "/" \o topicName
             \o "/" \o Today
             \o "/" \o randomValue(draw) \o "." \o "json"

getContentS3Path(clientCode, topicName, draw) ==
    "topics" \o "/" \o (IF clientCode # NoSession THEN clientCode ELSE "core")
             \o "/" \o JANIS_SERVICE_NAME
             \o "/" \o topicName
             \o "/" \o Today
             \o "/" \o randomValue(draw) \o "." \o "json"

Attribute(key, dataType, stringValue) == [k |-> key, DataType |-> dataType, StringValue |-> stringValue]

(* parsedAttributes[key] = ...: an existing key keeps its place *)
PutAttribute(attrs, attr) ==
    IF \E i \in 1..Len(attrs) : attrs[i].k = attr.k
    THEN [i \in 1..Len(attrs) |-> IF attrs[i].k = attr.k THEN attr ELSE attrs[i]]
    ELSE Append(attrs, attr)

RECURSIVE PutAttributes(_, _)
PutAttributes(attrs, entries) ==
    IF entries = <<>> THEN attrs
    ELSE PutAttributes(PutAttribute(attrs, Attribute(Head(entries).k, "String", Head(entries).v)),
                       Tail(entries))

(* attributes: the string-valued entries of event.attributes, <<>> when absent *)
parseMessageAttributes(attributes, clientCode, topicName) ==
    PutAttributes(<<Attribute("topicName", "String", topicName)>> \o
                  (IF clientCode # NoSession
                   THEN <<Attribute("janis-client", "String", clientCode)>> ELSE <<>>),
                  attributes)

parseExtraProperties(event, clientCode, topicName, draw) ==
    [hasFixed |-> event.hasFixed,
     payloadFixedProperties |-> event.payloadFixedProperties,
     contentS3Path |-> getContentS3Path(clientCode, topicName, draw)]

(* eventIndex = 0 stands for the absent argument of the single-event path *)
formatSNSEvent(event, clientCode, topicName, eventIndex, draw) ==
    [Id |-> IF eventIndex # 0 THEN ToString(eventIndex) ELSE "",
     Message |-> JSONstringify(event.content),
     MessageAttributes |-> parseMessageAttributes(event.attributes, clientCode, topicName),
     Subject |-> event.subject,
     extraProperties |-> parseExtraProperties(event, clientCode, topicName, draw),
     limitExceeded |-> FALSE]

AttributesLen(attrs) ==
    ObjectLen([i \in 1..Len(attrs) |->
        Member(attrs[i].k, ObjectLen(<<Member("DataType", StringLen(attrs[i].DataType)),
                                       Member("StringValue", StringLen(attrs[i].StringValue))>>))])

ArrayLen(keys) == 2 + SeqSum([i \in 1..Len(keys) |-> StringLen(keys[i])]) + Commas(Len(keys))

ExtraPropertiesLen(extra) ==
    ObjectLen((IF extra.hasFixed
               THEN <<Member("payloadFixedProperties", ArrayLen(extra.payloadFixedProperties))>>
               ELSE <<>>)
              \o <<Member("contentS3Path", StringLen(extra.contentS3Path))>>)

(* JSON.stringify(parsedEvent).length, before limitExceeded is set *)
ParsedEventSize(parsedEvent) ==
    ObjectLen((IF parsedEvent.Id # "" THEN <<Member("Id", StringLen(parsedEvent.Id))>> ELSE <<>>)
              \o <<Member("Message", EmbeddedLen(parsedEvent.Message)),
                   Member("MessageAttributes", AttributesLen(parsedEvent.MessageAttributes))>>
              \o (IF parsedEvent.Subject # ""
                  THEN <<Member("Subject", StringLen(parsedEvent.Subject))>> ELSE <<>>)
              \o <<Member("extraProperties", ExtraPropertiesLen(parsedEvent.extraProperties))>>)

RECURSIVE pickProperties(_, _)
pickProperties(object, keys) ==
    IF keys = <<>> THEN <<>>
    ELSE LET key == keys[Len(keys)]
             picked == pickProperties(object, SubSeq(keys, 1, Len(keys) - 1))
         IN  IF HasKey(object, key) THEN Put(picked, key, Get(object, key)) ELSE picked

formatBodyWithContentS3Path(parsedEvent, payloadFixedProperties, contentS3Path, bucketInfo) ==
    Spread(<<[k |-> "contentS3Location", v |-> LocV(contentS3Path, bucketInfo)]>>,
           IF Len(payloadFixedProperties) > 0
           THEN pickProperties(JSONparse(parsedEvent.Message), payloadFixedProperties)
           ELSE <<>>)

(* a mutant, used by the check of C27: the entry is marked but keeps its
   original size *)
handleEventSizeLimit_OriginalSize(parsedEvent, parsedEventSize) ==
    IF parsedEventSize > SNS_MESSAGE_LIMIT_SIZE
    THEN [event |-> [parsedEvent EXCEPT !.limitExceeded = TRUE], size |-> parsedEventSize]
    ELSE [event |-> parsedEvent, size |-> parsedEventSize]

handleEventSizeLimit(parsedEvent, parsedEventSize) ==
    IF parsedEventSize > SNS_MESSAGE_LIMIT_SIZE
    THEN [event |-> [parsedEvent EXCEPT !.limitExceeded = TRUE],
          size |-> JsonLen(formatBodyWithContentS3Path(parsedEvent,
                               parsedEvent.extraProperties.payloadFixedProperties,
                               parsedEvent.extraProperties.contentS3Path, NoBucket))
                   + estimatedBucketInfoSize]
    ELSE [event |-> parsedEvent, size |-> parsedEventSize]

----------------------------------------------------------------------------
(* parseEvents *)

(* the mutants of the partitioning, used by the checks of C1, C3 and C4 *)
OpensNewBatch_SizeOnly(batchSize, parsedEventSize, batchLength) ==
    batchSize + parsedEventSize > SNS_MESSAGE_LIMIT_SIZE

PushToBatches_NoIncrement(batches, opens, parsedEvent) ==
    [batches EXCEPT ![Len(batches)] = IF opens THEN <<parsedEvent>> ELSE Append(@, parsedEvent)]

NextBatchSize_NoReset(batchSize, parsedEventSize, opens) ==
    batchSize + parsedEventSize

(* line 207: the condition under which a new batch is opened *)
OpensNewBatch(batchSize, parsedEventSize, batchLength) ==
    \/ batchSize + parsedEventSize > SNS_MESSAGE_LIMIT_SIZE
    \/ batchLength = SNS_MAX_BATCH_SIZE

(* lines 208-209 and 213: currentBatchIndex++, a fresh batch, the push *)
PushToBatches(batches, opens, parsedEvent) ==
    IF opens
    THEN Append(batches, <<parsedEvent>>)
    ELSE [batches EXCEPT ![Len(batches)] = Append(@, parsedEvent)]

(* lines 210 and 214: currentBatchSize = 0, then += parsedEventSize *)
NextBatchSize(batchSize, parsedEventSize, opens) ==
    IF opens THEN 0 + parsedEventSize ELSE batchSize + parsedEventSize

NoResult == [none |-> TRUE]

Init ==
    /\ session \in Sessions
    /\ pc = "idle"
    /\ op = "none"
    /\ topicArn = StandardArn
    /\ events = <<>>
    /\ parsedEvents = <<>>
    /\ currentBatchSize = 0
    /\ randomDraws = 0
    /\ tasks = <<>>
    /\ offload = <<>>
    /\ cache = [ram |-> "empty", value |-> "empty"]
    /\ bucketList = <<>>
    /\ ramCalls = 0
    /\ ssmCalls = 0
    /\ result = NoResult

(* publishEvents, line 88, and the head of parseEvents, lines 186-195 *)
publishEvents ==
    /\ pc = "idle"
    /\ op' = "publishEvents"
    /\ \E arn \in TopicArns :
        /\ topicArn' = arn
        /\ IF isValidSnsArn(arn)
           THEN /\ pc' = "parseEvents"
                /\ events' = <<>>
                /\ result' = result
           ELSE /\ pc' = "rejected"
                /\ events' = <<>>
                /\ result' = InvalidArnError(arn)
    /\ parsedEvents' = << <<>> >>
    /\ currentBatchSize' = 0
    /\ UNCHANGED <<session, randomDraws, tasks, offload, cache, bucketList, ramCalls, ssmCalls>>

(* one iteration of the loop of parseEvents, lines 197-216, over the next
   event of the list *)
parseEventsLoop(kinds, maxEvents, limited, maxLimited) ==
    /\ pc = "parseEvents"
    /\ Len(events) < maxEvents
    /\ \E kind \in kinds :
        /\ kind \in limited => CountOf(events, limited) < maxLimited
        /\ LET eventIndex == Len(events) + 1
               currentBatchIndex == Len(parsedEvents)
               formatted == formatSNSEvent(Event(kind), session, getTopicNameFromArn(topicArn),
                                           eventIndex, randomDraws + 1)
               handled == handleEventSizeLimit(formatted, ParsedEventSize(formatted))
               opens == OpensNewBatch(currentBatchSize, handled.size,
                                      Len(parsedEvents[currentBatchIndex]))
           IN  /\ events' = Append(events, kind)
               /\ randomDraws' = randomDraws + 1
               /\ parsedEvents' = PushToBatches(parsedEvents, opens, handled.event)
               /\ currentBatchSize' = NextBatchSize(currentBatchSize, handled.size, opens)
    /\ UNCHANGED <<session, pc, op, topicArn, dispatchVars>>

(* parseEvents returns, line 218 *)
parseEventsReturn ==
    /\ pc = "parseEvents"
    /\ pc' = "parsed"
    /\ UNCHANGED <<session, op, topicArn, parseVars, dispatchVars>>

----------------------------------------------------------------------------
(* Collaborators *)

DefaultBucket == [bucketName |-> "sample-bucket-name-us-east-1", region |-> "us-east-1", default |-> TRUE]
ProvisionalBucket == [bucketName |-> "sample-bucket-name-us-west-1", region |-> "us-west-1", default |-> FALSE]
BucketLists == {<<DefaultBucket, ProvisionalBucket>>}

(* a destination with a name of 60 characters, the length the comment of
   handleEventSizeLimit allows for *)
LongNameBucket ==
    [bucketName |-> "janis-internal-storage-sample-service-name-beta-qa-us-east-1",
     region |-> "us-east-1", default |-> TRUE]

(* the lists the parameter may hold: the one of the test suite, the same with
   the default destination last, and one with the long name *)
AnyBucketLists ==
    {<<DefaultBucket, ProvisionalBucket>>, <<ProvisionalBucket, DefaultBucket>>,
     <<LongNameBucket, ProvisionalBucket>>}

(* a mutant, used by the check of C31: the second attempt goes to the first
   destination again *)
UploadOrder_PrimaryTwice(buckets) == <<buckets[1], buckets[1]>>

(* S3Uploader: const [defaultBucket, provisionalBucket] = buckets, the first
   two destinations by position, attempted in that order; the default flag is
   not read.  It answers with the bucket that stored the body *)
UploadOrder(buckets) == SubSeq(buckets, 1, IF Len(buckets) < 2 THEN Len(buckets) ELSE 2)

BucketInfo(bucket) == [bucketName |-> bucket.bucketName, region |-> bucket.region]

(* what S3Uploader.uploadToBucket can end with: a stored object, or undefined
   after a failed AssumeRole or a failed PutObject *)
UploadOutcomes == {"stored", "assumeRoleFailed", "putObjectFailed"}

----------------------------------------------------------------------------
(* The worker of publishEvents, lines 90-135, and publishEvent, lines 53-79 *)

S3_ERROR == "S3_ERROR"
RAM_ERROR == "RAM_ERROR"
SSM_ERROR == "SSM_ERROR"
TransportError == "TransportError"

IsError(formatted) == "Error" \in DOMAIN formatted

(* a mutant, used by the check of C33: the draft entry is sent as it is *)
WireEntry_Draft(parsedEvent) == parsedEvent

(* const { limitExceeded, extraProperties, ...parsedEvent } *)
WireEntry(parsedEvent) ==
    [Id |-> parsedEvent.Id, Message |-> parsedEvent.Message,
     MessageAttributes |-> parsedEvent.MessageAttributes, Subject |-> parsedEvent.Subject]

(* a mutant, used by the check of C8: the locator names the first destination
   whatever uploadContentS3Path answered *)
formatAndUploadEventWithS3Content_FirstBucket(parsedEvent, bucketInfo) ==
    IF bucketInfo = NoBucket
    THEN [Error |-> [Id |-> parsedEvent.Id,
                     Message |-> "Failed to upload to all provided s3 buckets",
                     Code |-> S3_ERROR]]
    ELSE [WireEntry(parsedEvent) EXCEPT !.Message =
            JSONstringify(formatBodyWithContentS3Path(parsedEvent,
                              parsedEvent.extraProperties.payloadFixedProperties,
                              parsedEvent.extraProperties.contentS3Path,
                              [bucketName |-> DefaultBucket.bucketName,
                               region |-> DefaultBucket.region]))]

(* a mutant, used by the check of C38: the locator is written with a path
   drawn anew *)
formatAndUploadEventWithS3Content_NewPath(parsedEvent, bucketInfo) ==
    IF bucketInfo = NoBucket
    THEN [Error |-> [Id |-> parsedEvent.Id,
                     Message |-> "Failed to upload to all provided s3 buckets",
                     Code |-> S3_ERROR]]
    ELSE [WireEntry(parsedEvent) EXCEPT !.Message =
            JSONstringify(formatBodyWithContentS3Path(parsedEvent,
                              parsedEvent.extraProperties.payloadFixedProperties,
                              getContentS3Path(NoSession, "MyTopic", 35 * 35), bucketInfo))]

(* what formatAndUploadEventWithS3Content resolves with, given the answer of
   uploadContentS3Path *)
formatAndUploadEventWithS3Content(parsedEvent, bucketInfo) ==
    IF bucketInfo = NoBucket
    THEN [Error |-> [Id |-> parsedEvent.Id,
                     Message |-> "Failed to upload to all provided s3 buckets",
                     Code |-> S3_ERROR]]
    ELSE [WireEntry(parsedEvent) EXCEPT !.Message =
            JSONstringify(formatBodyWithContentS3Path(parsedEvent,
                              parsedEvent.extraProperties.payloadFixedProperties,
                              parsedEvent.extraProperties.contentS3Path, bucketInfo))]

(* a mutant, used by the check of C6: every entry is offloaded *)
NeedsOffload_Always(operation, parsedEvent) == TRUE

(* line 63 for publishEvent, line 97 for publishEvents *)
NeedsOffload(operation, parsedEvent) ==
    IF operation = "publishEvent"
    THEN ParsedEventSize(parsedEvent) > SNS_MESSAGE_LIMIT_SIZE
    ELSE parsedEvent.limitExceeded

Map(s, F(_)) == [i \in 1..Len(s) |-> F(s[i])]

OffloadEntries(operation, batch) == SelectSeq(batch, LAMBDA e : NeedsOffload(operation, e))
PlainEntries(operation, batch) == SelectSeq(batch, LAMBDA e : ~NeedsOffload(operation, e))

(* a mutant, used by the check of C36: the entries no destination stored are
   sent as they were formatted *)
formattedSnsBatch_KeepFailed(operation, batch, off) ==
    Map(PlainEntries(operation, batch), WireEntry)
    \o Map(OffloadEntries(operation, batch),
           LAMBDA e : IF off[e.Id].bucketInfo = NoBucket THEN WireEntry(e)
                      ELSE formatAndUploadEventWithS3Content(e, off[e.Id].bucketInfo))

(* a mutant, used by the check of C32: once an upload has failed anywhere in
   the operation, the batches send their within-limit entries only *)
formattedSnsBatch_PlainAfterFailure(operation, batch, off) ==
    LET formatted == Map(OffloadEntries(operation, batch),
                         LAMBDA e : formatAndUploadEventWithS3Content(e, off[e.Id].bucketInfo))
    IN  IF \E id \in DOMAIN off : off[id].st = "failed"
        THEN Map(PlainEntries(operation, batch), WireEntry)
        ELSE Map(PlainEntries(operation, batch), WireEntry)
             \o SelectSeq(formatted, LAMBDA f : ~IsError(f))

(* lines 95-118: formattedSnsBatch and s3Failed once Promise.all has resolved.
   off[Id].bucketInfo is what uploadContentS3Path answered for the entry *)
formattedSnsBatch(operation, batch, off) ==
    LET formatted == Map(OffloadEntries(operation, batch),
                         LAMBDA e : formatAndUploadEventWithS3Content(e, off[e.Id].bucketInfo))
    IN  IF operation = "publishEvent"
        THEN Map(PlainEntries(operation, batch), WireEntry) \o formatted
        ELSE Map(PlainEntries(operation, batch), WireEntry)
             \o SelectSeq(formatted, LAMBDA f : ~IsError(f))

(* a mutant, used by the check of C9: upload failures are not collected *)
s3Failed_Dropped(operation, batch, off) == <<>>

s3Failed(operation, batch, off) ==
    LET formatted == Map(OffloadEntries(operation, batch),
                         LAMBDA e : formatAndUploadEventWithS3Content(e, off[e.Id].bucketInfo))
    IN  IF operation = "publishEvent" THEN <<>>
        ELSE Map(SelectSeq(formatted, LAMBDA f : IsError(f)), LAMBDA f : f.Error)

----------------------------------------------------------------------------
(* formatSnsResponse, lines 144-178 *)

NumberOf(id) == CHOOSE n \in 0..99 : ToString(n) = id

RECURSIVE InsertById(_, _)
InsertById(sorted, x) ==
    IF sorted = <<>> THEN <<x>>
    ELSE IF NumberOf(x.Id) < NumberOf(Head(sorted).Id)
         THEN <<x>> \o sorted
         ELSE <<Head(sorted)>> \o InsertById(Tail(sorted), x)

(* a mutant, used by the check of C15: the failures left as they were merged *)
SortById_None(failed) == failed

(* result.Failed.sort((a, b) => Number(a.Id) - Number(b.Id)); the sort is stable *)
RECURSIVE SortById(_)
SortById(failed) ==
    IF failed = <<>> THEN <<>>
    ELSE InsertById(SortById(SubSeq(failed, 1, Len(failed) - 1)), failed[Len(failed)])

(* a mutant, used by the check of C17: failedCount counts the batches that
   have failures *)
formatSnsResponse_CountBatches(results) ==
    [successCount |-> SeqSum(Map(results, LAMBDA r : Len(r.Successful))),
     failedCount |-> Len(SelectSeq(results, LAMBDA r : r.Failed # <<>>)),
     success |-> Flatten(Map(results, LAMBDA r :
                    Map(r.Successful, LAMBDA x : [Id |-> x.Id, messageId |-> x.MessageId]))),
     failed |-> Flatten(Map(results, LAMBDA r : SortById(r.Failed)))]

formatSnsResponse(results) ==
    [successCount |-> SeqSum(Map(results, LAMBDA r : Len(r.Successful))),
     failedCount |-> SeqSum(Map(results, LAMBDA r : Len(r.Failed))),
     success |-> Flatten(Map(results, LAMBDA r :
                    Map(r.Successful, LAMBDA x : [Id |-> x.Id, messageId |-> x.MessageId]))),
     failed |-> Flatten(Map(results, LAMBDA r : SortById(r.Failed)))]

----------------------------------------------------------------------------
(* The dispatcher state, as one record the steps below transform *)

World ==
    [pc |-> pc, tasks |-> tasks, offload |-> offload, cache |-> cache,
     bucketList |-> bucketList, ramCalls |-> ramCalls, ssmCalls |-> ssmCalls,
     result |-> result]

Commit(w) ==
    \E v \in {w} :
        /\ pc' = v.pc
        /\ tasks' = v.tasks
        /\ offload' = v.offload
        /\ cache' = v.cache
        /\ bucketList' = v.bucketList
        /\ ramCalls' = v.ramCalls
        /\ ssmCalls' = v.ssmCalls
        /\ result' = v.result

(* doneAt: the rank of the worker among those that resolved, 0 until it does *)
NewTask == [st |-> "queued", request |-> <<>>, s3Failed |-> <<>>,
            response |-> [Successful |-> <<>>, Failed |-> <<>>], error |-> "", doneAt |-> 0]

Rank(w) == Cardinality({b \in 1..Len(w.tasks) : w.tasks[b].st = "done"}) + 1

InFlight(w) == {b \in 1..Len(w.tasks) : w.tasks[b].st \in {"offload", "publishing"}}
Queued(w) == {b \in 1..Len(w.tasks) : w.tasks[b].st = "queued"}
Min(S) == CHOOSE x \in S : \A y \in S : x <= y

(* a mutant, used by the check of C13: the lookup is not memoized *)
getParameterValue_Unmemoized(w) ==
    [w EXCEPT !.cache.value = "pending", !.cache.ram = "pending", !.ramCalls = @ + 1]

(* ParameterStore.getParameterValue(), memoized with isPromise: a cached
   promise, pending or resolved, is returned as it is; otherwise the function
   runs, and so does the memoized getParameterArnFromRAM it awaits first *)
getParameterValue(w) ==
    IF w.cache.value # "empty" THEN w
    ELSE IF w.cache.ram = "resolved"
         THEN [w EXCEPT !.cache.value = "pending", !.ssmCalls = @ + 1]
         ELSE [w EXCEPT !.cache.value = "pending", !.cache.ram = "pending", !.ramCalls = @ + 1]

(* the first attempt of uploadContentS3Path for the entry *)
BeginUpload(buckets) ==
    [st |-> "upload", tried |-> <<UploadOrder(buckets)[1].bucketName>>, bucketInfo |-> NoBucket]
AwaitLookup == [st |-> "lookup", tried |-> <<>>, bucketInfo |-> NoBucket]

(* a mutant, used by the check of C29: the worker sends whatever is left,
   also nothing *)
AfterOffload_AlwaysPublish(w, operation, b, batch) ==
    [w EXCEPT !.tasks[b].st = "publishing",
              !.tasks[b].request = formattedSnsBatch(operation, batch, w.offload),
              !.tasks[b].s3Failed = s3Failed(operation, batch, w.offload)]

(* lines 107-134 once every offload of the batch has settled: the publish
   request when an entry is left, else the response made of s3Failed alone.
   In publishEvent, lines 65-73, the formatted event is published as it is *)
AfterOffload(w, operation, b, batch) ==
    LET request == formattedSnsBatch(operation, batch, w.offload)
        failures == s3Failed(operation, batch, w.offload)
    IN  IF Len(request) > 0
        THEN [w EXCEPT !.tasks[b].st = "publishing", !.tasks[b].request = request,
                       !.tasks[b].s3Failed = failures]
        ELSE [w EXCEPT !.tasks[b].st = "done", !.tasks[b].doneAt = Rank(w),
                       !.tasks[b].s3Failed = failures,
                       !.tasks[b].response = [Successful |-> <<>>, Failed |-> failures]]

(* line 225, once for each of the n entries of a batch that are offloaded *)
RECURSIVE LookupEach(_, _)
LookupEach(w, n) == IF n = 0 THEN w ELSE LookupEach(getParameterValue(w), n - 1)

(* the worker is called for batch b and runs to its first pending await *)
(* a mutant, used by the check of C24: every worker asks for the destination
   list, whatever its batch holds *)
StartTask_LookupFirst(w, operation, b, batch) ==
    LET over == OffloadEntries(operation, batch)
        ids == {over[i].Id : i \in 1..Len(over)}
        looked == getParameterValue(w)
        entryState == IF w.cache.value = "resolved" THEN BeginUpload(w.bucketList) ELSE AwaitLookup
        entered == [looked EXCEPT !.offload = [id \in ids |-> entryState] @@ @,
                                  !.tasks[b].st = "offload"]
    IN  IF Len(over) > 0 THEN entered ELSE AfterOffload(looked, operation, b, batch)

StartTask(w, operation, b, batch) ==
    LET over == OffloadEntries(operation, batch)
        ids == {over[i].Id : i \in 1..Len(over)}
        looked == LookupEach(w, Len(over))
        entryState == IF w.cache.value = "resolved" THEN BeginUpload(w.bucketList) ELSE AwaitLookup
        entered == [looked EXCEPT !.offload = [id \in ids |-> entryState] @@ @,
                                  !.tasks[b].st = "offload"]
    IN  IF Len(over) > 0 THEN entered ELSE AfterOffload(w, operation, b, batch)

(* AsyncWithConcurrency.run: batches are handed to the worker in order, at
   most MAX_CONCURRENCY of them unsettled at a time *)
(* a mutant, used by the check of C12: twice the ceiling *)
Concurrency_Twice == 2 * MAX_CONCURRENCY

(* line 136: the ceiling the dispatcher is constructed with *)
Concurrency == MAX_CONCURRENCY

RECURSIVE StartReady(_, _, _)
StartReady(w, operation, batches) ==
    IF w.pc # "dispatch" \/ Queued(w) = {} \/ Cardinality(InFlight(w)) >= Concurrency
    THEN w
    ELSE CHOOSE started \in {StartReady(v, operation, batches) :
                                v \in {StartTask(w, operation, Min(Queued(w)), batches[Min(Queued(w))])}} : TRUE

AllDone(w) == \A b \in 1..Len(w.tasks) : w.tasks[b].st = "done"

(* a mutant, used by the check of C16: the results in the order in which the
   workers resolved *)
RunResults_AsCompleted(ts) ==
    [r \in 1..Len(ts) |-> ts[CHOOSE b \in 1..Len(ts) : ts[b].doneAt = r].response]

(* what run() resolves with: the value each worker resolved with, in the
   order of the batches *)
RunResults(ts) == [b \in 1..Len(ts) |-> ts[b].response]

(* a mutant, used by the check of C18: an operation with a failed entry
   rejects *)
Settle_RejectOnFailedEntry(w, operation, batches) ==
    LET refilled == StartReady(w, operation, batches)
    IN  IF refilled.pc = "dispatch" /\ AllDone(refilled)
        THEN IF \E b \in 1..Len(refilled.tasks) : refilled.tasks[b].response.Failed # <<>>
             THEN [refilled EXCEPT !.pc = "rejected", !.result = [error |-> S3_ERROR]]
             ELSE [refilled EXCEPT !.pc = "resolved",
                     !.result = IF operation = "publishEvent"
                                THEN [messageId |-> refilled.tasks[1].response.Successful[1].MessageId]
                                ELSE formatSnsResponse(RunResults(refilled.tasks))]
        ELSE refilled

(* a mutant, used by the check of C39: the dispatcher starts workers when it
   is run and never again *)
Settle_StartOnce(w, operation, batches) ==
    CHOOSE settled \in
        {IF refilled.pc = "dispatch" /\ AllDone(refilled)
         THEN [refilled EXCEPT !.pc = "resolved",
                 !.result = IF operation = "publishEvent"
                            THEN [messageId |-> refilled.tasks[1].response.Successful[1].MessageId]
                            ELSE formatSnsResponse(RunResults(refilled.tasks))]
         ELSE refilled :
         refilled \in {IF InFlight(v) = {} /\ \A b \in 1..Len(v.tasks) : v.tasks[b].st = "queued"
                       THEN StartReady(v, operation, batches) ELSE v : v \in {w}}} : TRUE

(* a worker has settled: free slots are refilled; when every worker has
   resolved the operation resolves, lines 139-141 and 75-78. The world and
   the refilled world are bound as values, so that each is computed once *)
Settle(w, operation, batches) ==
    CHOOSE settled \in
        {IF refilled.pc = "dispatch" /\ AllDone(refilled)
         THEN [refilled EXCEPT !.pc = "resolved",
                 !.result = IF operation = "publishEvent"
                            THEN [messageId |-> refilled.tasks[1].response.Successful[1].MessageId]
                            ELSE formatSnsResponse(RunResults(refilled.tasks))]
         ELSE refilled : refilled \in {StartReady(v, operation, batches) : v \in {w}}} : TRUE

(* a mutant, used by the check of C19: the operation resolves with what the
   other workers have resolved with *)
Reject_PartialResult(w, code) ==
    IF w.pc = "dispatch"
    THEN [w EXCEPT !.pc = "resolved", !.result = formatSnsResponse(RunResults(w.tasks))]
    ELSE w

(* a worker has rejected: so does the operation, once *)
Reject(w, code) ==
    IF w.pc = "dispatch" THEN [w EXCEPT !.pc = "rejected", !.result = [error |-> code]] ELSE w

(* a mutant, used by the check of C10: the workers awaiting the lookup are
   left waiting *)
FailLookup_WorkersWaiting(w, code) ==
    IF w.pc = "dispatch" THEN [w EXCEPT !.pc = "rejected", !.result = [error |-> code]] ELSE w

(* every worker awaiting the rejected lookup rejects with its error *)
FailLookup(w, code) ==
    LET waiting(b) == w.tasks[b].st = "offload" /\
                      \E id \in DOMAIN w.offload :
                          /\ w.offload[id].st = "lookup"
                          /\ \E i \in 1..Len(parsedEvents[b]) : parsedEvents[b][i].Id = id
    IN  Reject([w EXCEPT
                  !.tasks = [b \in 1..Len(w.tasks) |->
                                IF waiting(b) THEN [w.tasks[b] EXCEPT !.st = "rejected", !.error = code]
                                ELSE w.tasks[b]],
                  !.offload = [id \in DOMAIN w.offload |->
                                IF w.offload[id].st = "lookup"
                                THEN [w.offload[id] EXCEPT !.st = "lookupFailed"]
                                ELSE w.offload[id]]],
               code)

BatchOf(id) == CHOOSE b \in 1..Len(parsedEvents) :
                  \E i \in 1..Len(parsedEvents[b]) : parsedEvents[b][i].Id = id

(* a mutant, used by the check of C28: the worker goes on at the first
   upload that settles *)
OffloadSettled_First(w, operation, batch) == TRUE

OffloadSettled(w, operation, batch) ==
    \A i \in 1..Len(batch) :
        NeedsOffload(operation, batch[i]) => w.offload[batch[i].Id].st \in {"uploaded", "failed"}

----------------------------------------------------------------------------
(* Steps of the operations *)

(* publishEvent, lines 53-68, up to its first pending await *)
publishEvent ==
    /\ pc = "idle"
    /\ \E arn \in TopicArns, kind \in DispatchKinds :
        LET parsedEvent == formatSNSEvent(Event(kind), session, getTopicNameFromArn(arn),
                                          0, randomDraws + 1)
            started == [World EXCEPT !.pc = "dispatch", !.tasks = <<NewTask>>]
        IN  /\ topicArn' = arn
            /\ op' = "publishEvent"
            /\ events' = <<kind>>
            /\ IF isValidSnsArn(arn)
               THEN /\ parsedEvents' = << <<parsedEvent>> >>
                    /\ randomDraws' = randomDraws + 1
                    /\ Commit(StartReady(started, "publishEvent", << <<parsedEvent>> >>))
               ELSE /\ UNCHANGED <<parsedEvents, randomDraws>>
                    /\ Commit([World EXCEPT !.pc = "rejected", !.result = InvalidArnError(arn)])
    /\ UNCHANGED <<session, currentBatchSize>>

(* publishEvents, line 139: asyncWithConcurrency.run(parsedEvents) *)
run ==
    /\ pc = "parsed"
    /\ Commit(Settle([World EXCEPT !.pc = "dispatch",
                                   !.tasks = [b \in 1..Len(parsedEvents) |-> NewTask]],
                     op, parsedEvents))
    /\ UNCHANGED <<session, op, topicArn, parseVars>>

(* getParameterArnFromRAM, s3-uploader.js lines 131-153: the answer to
   ListResourcesCommand; found is false when the request fails or no resource
   carries the parameter name *)
ramResponse ==
    /\ cache.ram = "pending"
    /\ \E found \in BOOLEAN :
        IF found
        THEN Commit([World EXCEPT !.cache.ram = "resolved", !.ssmCalls = @ + 1])
        ELSE Commit(FailLookup([World EXCEPT !.cache = [ram |-> "empty", value |-> "empty"]],
                               RAM_ERROR))
    /\ UNCHANGED <<session, op, topicArn, parseVars>>

(* getParameterValue, s3-uploader.js lines 101-121: the answer to
   GetParameterCommand *)
ssmResolved(buckets) ==
    Commit([World EXCEPT
              !.cache.value = "resolved",
              !.bucketList = buckets,
              !.offload = [id \in DOMAIN offload |->
                              IF offload[id].st = "lookup"
                              THEN BeginUpload(buckets) ELSE offload[id]]])

(* a mutant, used by the check of C34: the rejected promise stays in the
   cache of getParameterValue *)
ssmRejected_Cached == Commit(FailLookup(World, SSM_ERROR))

(* GetParameterCommand failed: micro-memoize drops the rejected promise *)
ssmRejected == Commit(FailLookup([World EXCEPT !.cache.value = "empty"], SSM_ERROR))

ssmResponse ==
    /\ cache.ram = "resolved"
    /\ cache.value = "pending"
    /\ \/ \E buckets \in BucketLists : ssmResolved(buckets)
       \/ ssmRejected
    /\ UNCHANGED <<session, op, topicArn, parseVars>>

(* the same answer, with any of the destination lists *)
ssmResponseAnyList ==
    /\ cache.ram = "resolved"
    /\ cache.value = "pending"
    /\ \/ \E buckets \in AnyBucketLists : ssmResolved(buckets)
       \/ ssmRejected
    /\ UNCHANGED <<session, op, topicArn, parseVars>>

(* uploadToBucket has settled for the entry: on failure the next destination
   is attempted; the worker goes on when the last offload of its batch settles *)
uploadResponse ==
    \E id \in DOMAIN offload, outcome \in UploadOutcomes :
        /\ offload[id].st = "upload"
        /\ LET order == UploadOrder(bucketList)
               attempt == Len(offload[id].tried)
               b == BatchOf(id)
               after ==
                   IF outcome = "stored"
                   THEN [World EXCEPT !.offload[id].st = "uploaded",
                                      !.offload[id].bucketInfo = BucketInfo(order[attempt])]
                   ELSE IF attempt < Len(order)
                        THEN [World EXCEPT !.offload[id].tried =
                                               Append(@, order[attempt + 1].bucketName)]
                        ELSE [World EXCEPT !.offload[id].st = "failed"]
           IN  IF OffloadSettled(after, op, parsedEvents[b])
               THEN Commit(Settle(AfterOffload(after, op, b, parsedEvents[b]), op, parsedEvents))
               ELSE Commit(after)
        /\ UNCHANGED <<session, op, topicArn, parseVars>>

(* a PublishCommand answer carries no Id: "" stands for it *)
SnsSuccessful(entry) ==
    IF IsError(entry) THEN [Id |-> "", MessageId |-> "msg-"]
    ELSE [Id |-> entry.Id, MessageId |-> "msg-" \o entry.Id]
SnsFailed(entry) == [Id |-> entry.Id, Code |-> "SNS001", Message |-> "SNS Failed"]

(* the transport answers the publish request of batch b: per entry for a
   batch, lines 123-134, or it throws *)
snsAnswer(b, maxFailed, mayThrow) ==
    /\ tasks[b].st = "publishing"
    /\ \/ \E failing \in SUBSET {i \in 1..Len(tasks[b].request) : op = "publishEvents"} :
            /\ Cardinality(failing) <= maxFailed
            /\ LET request == tasks[b].request
                   positions == 1..Len(request)
                   response ==
                       [Successful |-> Map(SelectSeq([i \in positions |-> i],
                                                     LAMBDA i : i \notin failing),
                                           LAMBDA i : SnsSuccessful(request[i])),
                        Failed |-> Map(SelectSeq([i \in positions |-> i],
                                                 LAMBDA i : i \in failing),
                                       LAMBDA i : SnsFailed(request[i]))
                                   \o tasks[b].s3Failed]
               IN  Commit(Settle([World EXCEPT !.tasks[b].st = "done",
                                               !.tasks[b].doneAt = Rank(World),
                                               !.tasks[b].response = response],
                                 op, parsedEvents))
       \/ /\ mayThrow
          /\ Commit(Reject([World EXCEPT !.tasks[b].st = "rejected",
                                         !.tasks[b].error = TransportError],
                           TransportError))
    /\ UNCHANGED <<session, op, topicArn, parseVars>>

snsResponse == \E b \in 1..Len(tasks) : snsAnswer(b, MaxSnsFailed, TRUE)

Publishing == {b \in 1..Len(tasks) : tasks[b].st = "publishing"}

(* every entry accepted, answered to the oldest outstanding request *)
snsResponseOldest ==
    /\ Publishing # {}
    /\ snsAnswer(Min(Publishing), 0, FALSE)

(* the operation has settled and none of its calls is outstanding: the
   process goes on to its next operation, from any SnsTrigger instance *)
nextOperation(maxDraws) ==
    /\ pc \in {"resolved", "rejected"}
    /\ InFlight(World) = {}
    /\ randomDraws < maxDraws
    /\ pc' = "idle"
    /\ op' = "none"
    /\ session' \in Sessions
    /\ topicArn' = StandardArn
    /\ events' = <<>>
    /\ parsedEvents' = <<>>
    /\ currentBatchSize' = 0
    /\ tasks' = <<>>
    /\ offload' = <<>>
    /\ result' = NoResult
    /\ UNCHANGED <<randomDraws, cache, bucketList, ramCalls, ssmCalls>>

(* a mutant, used by the check of C14: only the cache of getParameterValue
   is emptied *)
clearCache_ValueOnly ==
    /\ pc = "idle"
    /\ cache.value # "empty"
    /\ cache' = [cache EXCEPT !.value = "empty"]
    /\ bucketList' = <<>>
    /\ UNCHANGED <<session, pc, op, topicArn, parseVars, tasks, offload, ramCalls, ssmCalls, result>>

(* ParameterStore.clearCache(), s3-uploader.js lines 82-87, called between
   two operations *)
clearCache ==
    /\ pc = "idle"
    /\ cache # [ram |-> "empty", value |-> "empty"]
    /\ cache' = [ram |-> "empty", value |-> "empty"]
    /\ bucketList' = <<>>
    /\ UNCHANGED <<session, pc, op, topicArn, parseVars, tasks, offload, ramCalls, ssmCalls, result>>

NextParse ==
    \/ publishEvents
    \/ parseEventsLoop(ParseKinds, MaxParseEvents, LargeKinds, MaxLarge)
    \/ parseEventsReturn

SpecParse == Init /\ [][NextParse]_vars

Next ==
    \/ publishEvents
    \/ parseEventsLoop(DispatchKinds, MaxEvents, OversizeKinds, MaxOversize)
    \/ parseEventsReturn
    \/ publishEvent
    \/ run
    \/ ramResponse
    \/ ssmResponse
    \/ uploadResponse
    \/ snsResponse

Spec == Init /\ [][Next]_vars

(* the same operations of a publisher that was given no session *)
InitNoSession == Init /\ session = NoSession

SpecNoSession == InitNoSession /\ [][Next]_vars

(* publishEvents over events that each fill a batch of their own, so that the
   batches outnumber the ceiling of the dispatcher *)
NextPool ==
    \/ publishEvents
    \/ parseEventsLoop({"half"}, MaxPoolEvents, {}, MaxPoolEvents)
    \/ parseEventsReturn
    \/ run
    \/ snsResponseOldest

SpecPool == Init /\ [][NextPool]_vars

(* publishEvents with up to a full batch of small events *)
NextBatch ==
    \/ publishEvents
    \/ parseEventsLoop({"small", "big"}, MaxBatchEvents, OversizeKinds, MaxBatchOversize)
    \/ parseEventsReturn
    \/ run
    \/ ramResponse
    \/ ssmResponse
    \/ uploadResponse
    \/ snsResponse

SpecBatch == Init /\ [][NextBatch]_vars

(* publishEvents with any of the destination lists *)
NextBuckets ==
    \/ publishEvents
    \/ parseEventsLoop({"small", "big"}, MaxBucketEvents, OversizeKinds, MaxBucketEvents)
    \/ parseEventsReturn
    \/ run
    \/ ramResponse
    \/ ssmResponseAnyList
    \/ uploadResponse
    \/ snsResponse

SpecBuckets == Init /\ [][NextBuckets]_vars

(* publishEvents over oversize events, with and without a huge fixed
   property, so that several batches have entries to offload *)
NextSiblings ==
    \/ publishEvents
    \/ parseEventsLoop({"big", "bigfixed"}, MaxSiblingEvents, OversizeKinds, MaxSiblingEvents)
    \/ parseEventsReturn
    \/ run
    \/ ramResponse
    \/ ssmResponse
    \/ uploadResponse
    \/ snsResponse

SpecSiblings == Init /\ [][NextSiblings]_vars

(* the loop of parseEvents over the first event of the list, an oversize one *)
parseEventsFirstOversize ==
    /\ events = <<>>
    /\ parseEventsLoop({"big"}, MaxPoolEvents, {}, MaxPoolEvents)

(* the transport answers the PublishCommand of publishEvent, or throws *)
snsResponseSingle ==
    /\ op = "publishEvent"
    /\ Len(tasks) = 1
    /\ snsAnswer(1, 0, TRUE)

(* both operations with every call they await answered in the end:
   publishEvents over batches that outnumber the ceiling of the dispatcher,
   the first of the events oversize or not, and publishEvent *)
NextLive ==
    \/ publishEvents
    \/ parseEventsFirstOversize
    \/ parseEventsLoop({"half"}, MaxPoolEvents, {}, MaxPoolEvents)
    \/ parseEventsReturn
    \/ publishEvent
    \/ run
    \/ ramResponse
    \/ ssmResponse
    \/ uploadResponse
    \/ snsResponseOldest
    \/ snsResponseSingle

(* the steps that do not wait for the caller: the code of the operation
   running on, and a collaborator answering a call that is outstanding *)
Continues ==
    \/ parseEventsReturn
    \/ run
    \/ ramResponse
    \/ ssmResponse
    \/ uploadResponse
    \/ snsResponseOldest
    \/ snsResponseSingle

(* while one of them is possible, one of them happens in the end *)
SpecLive == Init /\ [][NextLive]_vars /\ WF_vars(Continues)

(* getTopicNameFromArn on its own, lines 405-419 *)
resolveTopicName ==
    /\ pc = "idle"
    /\ \E case \in ArnCases :
        LET snsArn == [text |-> case.text]
        IN  /\ topicArn' = snsArn
            /\ op' = "getTopicNameFromArn"
            /\ IF isValidSnsArn(snsArn)
               THEN /\ pc' = "resolved"
                    /\ result' = [topicName |-> getTopicNameFromArn(snsArn)]
               ELSE /\ pc' = "rejected"
                    /\ result' = InvalidArnError(snsArn)
    /\ UNCHANGED <<session, events, parsedEvents, currentBatchSize, randomDraws, tasks,
                   offload, cache, bucketList, ramCalls, ssmCalls>>

NextArn == resolveTopicName

SpecArn == Init /\ [][NextArn]_vars

(* a sequence of operations in one process, sharing the caches of
   ParameterStore *)
NextCache ==
    \/ publishEvents
    \/ parseEventsLoop({"small", "big", "bigfixed"}, MaxCacheEvents, OversizeKinds, MaxCacheEvents)
    \/ parseEventsReturn
    \/ publishEvent
    \/ run
    \/ ramResponse
    \/ ssmResponse
    \/ uploadResponse
    \/ snsResponse
    \/ nextOperation(MaxCacheDraws)
    \/ clearCache

SpecCache == Init /\ [][NextCache]_vars

----------------------------------------------------------------------------
(* Claims about parseEvents, checked under SpecParse *)

AllEntries == Flatten(parsedEvents)
EstimatedSize(entry) ==
    JsonLen(formatBodyWithContentS3Path(entry, entry.extraProperties.payloadFixedProperties,
                                        entry.extraProperties.contentS3Path, NoBucket))
    + estimatedBucketInfoSize
OverLimit(entry) == ParsedEventSize(entry) > SNS_MESSAGE_LIMIT_SIZE
(* the size an entry is packed with *)
PackedSize(entry) == IF OverLimit(entry) THEN EstimatedSize(entry) ELSE ParsedEventSize(entry)
BatchPackedSize(batch) == SeqSum([i \in 1..Len(batch) |-> PackedSize(batch[i])])

(* C1: every batch produced by parseEvents holds at most 10 entries *)
C1_BatchAtMostTenEntries ==
    \A b \in 1..Len(parsedEvents) : Len(parsedEvents[b]) <= SNS_MAX_BATCH_SIZE

C1_Witness ==
    /\ pc = "parsed"
    /\ Len(parsedEvents) = 2
    /\ Len(parsedEvents[1]) = SNS_MAX_BATCH_SIZE
    /\ Len(parsedEvents[2]) > 0

(* C2: the packed sizes of the entries of each batch sum to at most 256 KiB *)
C2_BatchAtMost256KiB ==
    \A b \in 1..Len(parsedEvents) : BatchPackedSize(parsedEvents[b]) <= SNS_MESSAGE_LIMIT_SIZE

(* C3: the batches, concatenated, are the formatted events in input order,
   identified "1".."N"; nothing is dropped, events over the limit included *)
C3_NoDropNoReorder ==
    LET entries == AllEntries
        ids == [i \in 1..Len(entries) |-> entries[i].Id]
    IN  /\ Len(entries) = Len(events)
        /\ \A i \in 1..Len(entries) :
            /\ ids[i] = ToString(i)
            /\ JSONparse(entries[i].Message) = Event(events[i]).content
            /\ entries[i].extraProperties.payloadFixedProperties = Event(events[i]).payloadFixedProperties
            /\ entries[i].Subject = Event(events[i]).subject
        /\ \A i, j \in 1..Len(entries) : i # j => ids[i] # ids[j]

C3_Witness ==
    /\ pc = "parsed"
    /\ Len(parsedEvents) >= 3
    /\ Len(events) >= 12
    /\ \E i \in 1..Len(AllEntries) : i < Len(AllEntries) /\ AllEntries[i].limitExceeded

(* C4: a batch is opened before an entry exactly when the open batch holds 10
   entries or its packed size plus the entry's exceeds 256 KiB, otherwise the
   entry joins the open batch; N small events give ceil(N/10) batches, all
   full but the last *)
C4_StepIsGreedy ==
    (pc = "parseEvents" /\ events' # events) =>
        LET open == parsedEvents[Len(parsedEvents)]
            entry == AllEntries'[Len(AllEntries')]
            opened == Len(parsedEvents') = Len(parsedEvents) + 1
        IN  /\ opened <=> \/ Len(open) = SNS_MAX_BATCH_SIZE
                          \/ BatchPackedSize(open) + PackedSize(entry) > SNS_MESSAGE_LIMIT_SIZE
            /\ opened => parsedEvents' = Append(parsedEvents, <<entry>>)
            /\ ~opened => parsedEvents' = [parsedEvents EXCEPT ![Len(parsedEvents)] = Append(open, entry)]

AllSmall == \A i \in 1..Len(events) : IsSmall(events[i])
CeilDiv(n, d) == (n + d - 1) \div d

C4_UniformSmall ==
    (pc \in {"parseEvents", "parsed"} /\ AllSmall /\ Len(events) > 0) =>
        /\ Len(parsedEvents) = CeilDiv(Len(events), SNS_MAX_BATCH_SIZE)
        /\ \A b \in 1..(Len(parsedEvents) - 1) : Len(parsedEvents[b]) = SNS_MAX_BATCH_SIZE
        /\ Len(parsedEvents[Len(parsedEvents)]) =
              Len(events) - SNS_MAX_BATCH_SIZE * (Len(parsedEvents) - 1)

C4_GreedyPartition == [][C4_StepIsGreedy]_vars /\ []C4_UniformSmall

C4_Witness ==
    /\ pc = "parsed"
    /\ AllSmall
    /\ Len(events) = 15
    /\ Len(parsedEvents) = 2
    /\ Len(parsedEvents[1]) = 10
    /\ Len(parsedEvents[2]) = 5

----------------------------------------------------------------------------
(* Claims about the publish requests, checked under Spec *)

Requests == {<<b, i>> \in (1..Len(tasks)) \X (1..MaxEvents + 1) : i <= Len(tasks[b].request)}
RequestAt(at) == tasks[at[1]].request[at[2]]
RequestIds(b) == [i \in 1..Len(tasks[b].request) |-> tasks[b].request[i].Id]
(* the positions, in events and in AllEntries, of the event a request entry
   was formatted from *)
EventOf(entry) == {k \in 1..Len(AllEntries) : AllEntries[k].Id = entry.Id}
FixedKeys(kind) ==
    {Event(kind).payloadFixedProperties[n] : n \in 1..Len(Event(kind).payloadFixedProperties)}

(* C5: in every publish-batch call the entries are in ascending identifier
   order, whatever mix of in-limit and offloaded entries the batch holds *)
C5_RequestInFormattingOrder ==
    op = "publishEvents" =>
        \A b \in 1..Len(tasks) : \A i, j \in 1..Len(tasks[b].request) :
            i < j => NumberOf(RequestIds(b)[i]) < NumberOf(RequestIds(b)[j])

(* C6: an event whose formatted size is at most 256 KiB is sent, by
   publishEvent and by publishEvents, with the serialisation of its content as
   body and nothing else in it *)
C6_WithinLimitBodyVerbatim ==
    \A at \in Requests :
        ~IsError(RequestAt(at)) =>
            \A k \in EventOf(RequestAt(at)) :
                ~OverLimit(AllEntries[k]) =>
                    /\ RequestAt(at).Message = JSONstringify(Event(events[k]).content)
                    /\ ~HasKey(JSONparse(RequestAt(at).Message), "contentS3Location")

C6_Witness ==
    /\ op = "publishEvents"
    /\ pc = "resolved"
    /\ \E at \in Requests : \E k \in EventOf(RequestAt(at)) :
          ~OverLimit(AllEntries[k]) /\ events[k] = "half"
    /\ \E at \in Requests : \E k \in EventOf(RequestAt(at)) : OverLimit(AllEntries[k])

(* C7: the body of an offloaded event holds the locator (path, bucket name,
   region) and, besides it, exactly the payloadFixedProperties keys present in
   the content, with their values; no content key replaces the locator *)
C7_OffloadedBodyShape ==
    \A at \in Requests :
        ~IsError(RequestAt(at)) =>
            \A k \in EventOf(RequestAt(at)) :
                OverLimit(AllEntries[k]) =>
                    LET body == JSONparse(RequestAt(at).Message)
                        content == Event(events[k]).content
                        picked == FixedKeys(events[k]) \cap Keys(content)
                    IN  /\ offload[AllEntries[k].Id].bucketInfo # NoBucket
                        /\ HasKey(body, "contentS3Location")
                        /\ Get(body, "contentS3Location") =
                              LocV(AllEntries[k].extraProperties.contentS3Path,
                                   offload[AllEntries[k].Id].bucketInfo)
                        /\ Keys(body) = {"contentS3Location"} \cup picked
                        /\ \A key \in picked \ {"contentS3Location"} :
                              Get(body, key) = Get(content, key)

----------------------------------------------------------------------------
(* Claims about upload and lookup failures, checked under Spec *)

Published(id) ==
    {at \in Requests : ~IsError(RequestAt(at)) /\ RequestAt(at).Id = id}
S3Failures(id) ==
    {<<b, i>> \in (1..Len(tasks)) \X (1..MaxEvents + 1) :
        i <= Len(tasks[b].s3Failed) /\ tasks[b].s3Failed[i].Id = id}
FellBack(id) ==
    /\ offload[id].st = "uploaded"
    /\ offload[id].tried = <<DefaultBucket.bucketName, ProvisionalBucket.bucketName>>
    /\ tasks[BatchOf(id)].st \in {"publishing", "done"}

(* C8: when the upload to the primary destination fails and the one to the
   secondary succeeds, the entry is published, not reported as failed, and
   the locator of its body names the secondary's bucket and region *)
C8_FallbackLocator ==
    \A id \in DOMAIN offload :
        FellBack(id) =>
            /\ S3Failures(id) = {}
            /\ Published(id) # {}
            /\ \A at \in Published(id) : \A k \in EventOf(RequestAt(at)) :
                  LET body == JSONparse(RequestAt(at).Message)
                  IN  "contentS3Location" \notin FixedKeys(events[k]) =>
                          /\ HasKey(body, "contentS3Location")
                          /\ Get(body, "contentS3Location").bucket =
                                [bucketName |-> ProvisionalBucket.bucketName,
                                 region |-> ProvisionalBucket.region]
                          /\ Get(body, "contentS3Location").bucket.bucketName
                                # DefaultBucket.bucketName

C8_Witness ==
    /\ pc = "resolved"
    /\ \E id \in DOMAIN offload :
          FellBack(id) /\ events[CHOOSE k \in 1..Len(events) : AllEntries[k].Id = id] = "big"

AllFailed(id) == offload[id].st = "failed"

(* C9: in publishEvents, an upload that fails at every destination does not
   reject the operation: the entry is once in failed with code S3_ERROR, is in
   no publish-batch call, and the rest of its batch is still sent *)
C9_UploadFailureIsPerEntry ==
    op = "publishEvents" =>
        /\ pc = "rejected" => result.error # S3_ERROR
        /\ ~(pc = "dispatch" /\ AllDone(World))
        /\ \A id \in DOMAIN offload :
              AllFailed(id) =>
                  LET b == BatchOf(id)
                      sent == {RequestIds(b)[i] : i \in 1..Len(tasks[b].request)}
                  IN  /\ \A at \in Requests : RequestAt(at).Id # id
                      /\ tasks[b].st = "rejected" => tasks[b].error = TransportError
                      /\ tasks[b].st \in {"publishing", "done", "rejected"} =>
                            \A i \in 1..Len(parsedEvents[b]) :
                                LET e == parsedEvents[b][i]
                                IN  (~e.limitExceeded \/ offload[e.Id].st = "uploaded")
                                        <=> e.Id \in sent
                      /\ pc = "resolved" =>
                            /\ Cardinality({i \in 1..Len(result.failed) :
                                               result.failed[i].Id = id}) = 1
                            /\ \A i \in 1..Len(result.failed) :
                                  result.failed[i].Id = id => result.failed[i].Code = S3_ERROR
                            /\ \A i \in 1..Len(result.success) : result.success[i].Id # id

C9_Witness ==
    /\ op = "publishEvents"
    /\ pc = "resolved"
    /\ \E id \in DOMAIN offload :
          /\ AllFailed(id)
          /\ Len(tasks[BatchOf(id)].request) > 0
          /\ Len(parsedEvents[BatchOf(id)]) > 1

LookupErrors == {RAM_ERROR, SSM_ERROR}
(* the step in which the lookup of the destination list fails, and its error *)
LookupFails == cache.value = "pending" /\ cache'.value = "empty"
LookupError == IF cache.ram = "pending" THEN RAM_ERROR ELSE SSM_ERROR
HasOversize(b) == \E i \in 1..Len(parsedEvents[b]) : parsedEvents[b][i].limitExceeded
Issued(b) == tasks[b].request # <<>>

(* C10, as stated: when the lookup of the destination list fails, publishEvents
   rejects with the lookup error and no publish call of any batch has been
   attempted before *)
C10_NoPublishBeforeLookupRejection ==
    [][(op = "publishEvents" /\ LookupFails) =>
          /\ pc' = "rejected"
          /\ result'.error = LookupError
          /\ \A b \in 1..Len(tasks) : ~Issued(b)]_vars

(* C10, amended: when the lookup fails, no batch holding an oversize entry
   issues a publish-batch call, then or later, and its worker rejects with the
   lookup error; publishEvents ends rejected, with the lookup error unless a
   publish-batch call issued earlier by a batch without oversize entries had
   already thrown *)
C10_LookupFailureStep ==
    (op = "publishEvents" /\ LookupFails) =>
        /\ pc' = "rejected"
        /\ pc = "dispatch" => result'.error = LookupError
        /\ pc = "rejected" => result' = result /\ result.error = TransportError
        /\ \A b \in 1..Len(tasks) :
              /\ HasOversize(b) => /\ ~Issued(b)
                                   /\ tasks'[b].st = "rejected"
                                   /\ tasks'[b].error = LookupError
              /\ ~HasOversize(b) => tasks'[b] = tasks[b]

C10_RejectedBatchNeverPublishes ==
    \A b \in 1..Len(tasks) :
        (tasks[b].st = "rejected" /\ tasks[b].error \in LookupErrors) => ~Issued(b)

C10_LookupFailureRejects ==
    [][C10_LookupFailureStep]_vars /\ []C10_RejectedBatchNeverPublishes

C10_Witness ==
    /\ op = "publishEvents"
    /\ pc = "rejected"
    /\ result.error \in LookupErrors
    /\ \E b \in 1..Len(tasks) : tasks[b].st = "rejected" /\ tasks[b].error \in LookupErrors
    /\ \E b \in 1..Len(tasks) : Issued(b)

----------------------------------------------------------------------------
(* Claims about the identifier of the topic, checked under Spec *)

MalformedArns == {InvalidArn, ShortAccountArn}

(* C11: with a topic identifier that does not match the ARN pattern both
   operations reject with the invalid-identifier error naming the identifier,
   and no lookup, upload or publish call is made *)
C11_InvalidArnRejectsWithoutCalls ==
    (op # "none" /\ topicArn \in MalformedArns) =>
        /\ pc = "rejected"
        /\ result = [error |-> INVALID_SNS_ARN,
                     message |-> "Invalid SNS ARN: " \o topicArn.text]
        /\ ramCalls = 0
        /\ ssmCalls = 0
        /\ offload = <<>>
        /\ tasks = <<>>
        /\ cache = [ram |-> "empty", value |-> "empty"]

C11_Witness ==
    /\ op = "publishEvent"
    /\ topicArn = ShortAccountArn
    /\ events = <<"big">>
    /\ pc = "rejected"
    /\ result.message = "Invalid SNS ARN: arn:aws:sns:us-east-1:12345678901:MyTopic"

----------------------------------------------------------------------------
(* Claims about the dispatcher *)

(* C12: at every moment at most 25 batch-level tasks are in flight, however
   many batches the partitioner produced *)
C12_AtMost25InFlight ==
    Cardinality(InFlight(World)) <= MAX_CONCURRENCY

C12_Witness ==
    /\ Len(tasks) > MAX_CONCURRENCY
    /\ Cardinality(InFlight(World)) = MAX_CONCURRENCY
    /\ Queued(World) # {}
    /\ \E b \in 1..Len(tasks) : tasks[b].st = "done"

(* C13: in one publishEvents operation that starts with an empty cache, the
   resource-discovery call and the parameter read are each issued once,
   however many oversize entries wait for the destination list *)
C13_LookupIssuedOnce ==
    op = "publishEvents" =>
        /\ ramCalls <= 1
        /\ ssmCalls <= 1
        /\ offload # <<>> => ramCalls = 1
        /\ cache.ram = "resolved" => ssmCalls = 1
        /\ \A id \in DOMAIN offload :
              offload[id].st \in {"upload", "uploaded", "failed"} =>
                  ramCalls = 1 /\ ssmCalls = 1

C13_Witness ==
    /\ op = "publishEvents"
    /\ Cardinality(DOMAIN offload) >= 2
    /\ \A id \in DOMAIN offload : offload[id].st = "upload"
    /\ ramCalls = 1
    /\ ssmCalls = 1

----------------------------------------------------------------------------
(* Claims about the cache of the destination list, checked under SpecCache *)

EmptyCache == [ram |-> "empty", value |-> "empty"]
NewlyWaiting == \E id \in DOMAIN offload' : id \notin DOMAIN offload

(* C14: once the destination list is resolved, no operation of the process
   issues a resource-discovery or parameter-read call until clearCache; after
   clearCache the next oversize entry issues each of them once *)
C14_Step ==
    /\ cache.value = "resolved" =>
          /\ ramCalls' = ramCalls
          /\ ssmCalls' = ssmCalls
          /\ cache' # cache => (pc = "idle" /\ cache' = EmptyCache)
    /\ ramCalls' # ramCalls =>
          /\ ramCalls' = ramCalls + 1
          /\ cache = EmptyCache
          /\ cache' = [ram |-> "pending", value |-> "pending"]
    /\ ssmCalls' # ssmCalls =>
          /\ ssmCalls' = ssmCalls + 1
          /\ \/ cache = [ram |-> "pending", value |-> "pending"]
             \/ cache = [ram |-> "resolved", value |-> "empty"]
          /\ cache' = [ram |-> "resolved", value |-> "pending"]
    /\ (cache = EmptyCache /\ NewlyWaiting) => ramCalls' = ramCalls + 1
    /\ (cache.value = "resolved" /\ NewlyWaiting) =>
          \A id \in DOMAIN offload' : offload'[id].st # "lookup"

C14_ResolvedOncePerProcess == [][C14_Step]_vars

C14_Witness ==
    /\ randomDraws = 2
    /\ cache.value = "resolved"
    /\ ramCalls = 2
    /\ ssmCalls = 2
    /\ \E id \in DOMAIN offload : offload[id].st = "uploaded"

----------------------------------------------------------------------------
(* C15: the failed list of the aggregated result is in ascending order of the
   numeric value of the entry identifier, over the whole result: the failures
   of all the batches together, upload failures and publish failures alike *)

Ascending(failed) ==
    \A i, j \in 1..Len(failed) :
        i < j => NumberOf(failed[i].Id) <= NumberOf(failed[j].Id)

C15_FailedSortedById ==
    (pc = "resolved" /\ op = "publishEvents") => Ascending(result.failed)

(* a batch whose merged failures were out of order, the publish failure of a
   later entry before the upload failure of an earlier one, with failures in
   a second batch too *)
C15_Witness ==
    /\ pc = "resolved"
    /\ op = "publishEvents"
    /\ \E b \in 1..Len(tasks) : ~Ascending(tasks[b].response.Failed)
    /\ \E b, c \in 1..Len(tasks) :
            /\ b # c
            /\ tasks[b].response.Failed # <<>>
            /\ tasks[c].response.Failed # <<>>

----------------------------------------------------------------------------
(* C16: the aggregated result does not depend on the order in which the
   batches completed: it is the aggregate of the answers of the batches taken
   in the order of the batches, whatever the order in which they arrived *)

C16_ResultIndependentOfCompletionOrder ==
    (pc = "resolved" /\ op = "publishEvents") =>
        result = formatSnsResponse([b \in 1..Len(tasks) |-> tasks[b].response])

(* a later batch that completed before an earlier one, both with accepted
   entries, one of them with a failure *)
C16_Witness ==
    /\ pc = "resolved"
    /\ op = "publishEvents"
    /\ \E b, c \in 1..Len(tasks) :
            /\ b < c
            /\ tasks[c].doneAt < tasks[b].doneAt
            /\ tasks[b].response.Successful # <<>>
            /\ tasks[c].response.Successful # <<>>
            /\ tasks[b].response.Failed # <<>> \/ tasks[c].response.Failed # <<>>

----------------------------------------------------------------------------
(* C17: in every result of publishEvents successCount is the length of
   success and failedCount the length of failed; successCount is the number
   of entries the transport accepted over all batches, failedCount the number
   it reported as failed plus the number whose upload failed at every
   destination.  In particular up to ten within-limit events, all accepted,
   give successCount = N and failedCount = 0 *)

Accepted(b) == Len(tasks[b].response.Successful)
TransportFailed(b) == Len(SelectSeq(tasks[b].response.Failed, LAMBDA f : f.Code = "SNS001"))
OffloadFailed == Cardinality({id \in DOMAIN offload : offload[id].st = "failed"})

C17_CountsMatchLists ==
    (pc = "resolved" /\ op = "publishEvents") =>
        LET batches == 1..Len(tasks)
            accepted == SeqSum([b \in batches |-> Accepted(b)])
            transportFailed == SeqSum([b \in batches |-> TransportFailed(b)])
        IN  /\ result.successCount = Len(result.success)
            /\ result.failedCount = Len(result.failed)
            /\ result.successCount = accepted
            /\ result.failedCount = transportFailed + OffloadFailed
            /\ ( /\ Len(events) <= SNS_MAX_BATCH_SIZE
                 /\ \A i \in 1..Len(events) : events[i] = "small"
                 /\ transportFailed = 0 )
               => /\ result.successCount = Len(events)
                  /\ result.failedCount = 0

(* ten events in one batch, one of them not uploaded and one reported as
   failed by the transport *)
C17_Witness ==
    /\ pc = "resolved"
    /\ op = "publishEvents"
    /\ Len(events) = SNS_MAX_BATCH_SIZE
    /\ Len(tasks) = 1
    /\ OffloadFailed = 1
    /\ TransportFailed(1) = 1
    /\ result.successCount = SNS_MAX_BATCH_SIZE - 2
    /\ result.failedCount = 2

(* ten within-limit events, all accepted *)
C17_WitnessAllAccepted ==
    /\ pc = "resolved"
    /\ op = "publishEvents"
    /\ Len(events) = SNS_MAX_BATCH_SIZE
    /\ \A i \in 1..Len(events) : events[i] = "small"
    /\ result.successCount = SNS_MAX_BATCH_SIZE
    /\ result.failedCount = 0

----------------------------------------------------------------------------
(* C18: per-entry failures never reject publishEvents: as long as no call of
   the operation has failed as a whole (no lookup was rejected, no publish
   call threw, the ARN is well formed) the operation is not rejected, and
   once every batch has been answered it is resolved with a failed list that
   holds every entry the transport reported as failed and every entry whose
   upload failed at every destination *)

CallFailed == \E b \in 1..Len(tasks) : tasks[b].st = "rejected"

InFailed(id, code) ==
    \E i \in 1..Len(result.failed) :
        result.failed[i].Id = id /\ result.failed[i].Code = code

C18_EntryFailuresNeverReject ==
    ( /\ op = "publishEvents"
      /\ pc \in {"dispatch", "resolved", "rejected"}
      /\ topicArn \notin MalformedArns
      /\ ~CallFailed )
    => /\ pc # "rejected"
       /\ (InFlight(World) = {} /\ Queued(World) = {}) =>
             /\ pc = "resolved"
             /\ \A id \in DOMAIN offload :
                    offload[id].st = "failed" => InFailed(id, S3_ERROR)
             /\ \A b \in 1..Len(tasks) : \A i \in 1..Len(tasks[b].response.Failed) :
                    InFailed(tasks[b].response.Failed[i].Id, tasks[b].response.Failed[i].Code)

(* an operation resolved although the transport failed an entry and the upload
   of another failed at every destination *)
C18_Witness ==
    /\ pc = "resolved"
    /\ op = "publishEvents"
    /\ \E id \in DOMAIN offload : offload[id].st = "failed" /\ InFailed(id, S3_ERROR)
    /\ \E b \in 1..Len(tasks) : TransportFailed(b) > 0
    /\ \E i \in 1..Len(result.failed) : result.failed[i].Code = "SNS001"

----------------------------------------------------------------------------
(* C19: when the publish call of a batch throws, publishEvents rejects and
   returns no partial result, whatever the other batches of the operation
   did; the step leaves the other batches as they are, and no later step
   withdraws a request that was issued or changes the answer of a batch that
   was published *)

Threw(b) == tasks[b].st = "publishing" /\ tasks'[b].st = "rejected"

OnlyError(r) == DOMAIN r = {"error"}

C19_Step ==
    /\ \A b \in 1..Len(tasks) :
          (op = "publishEvents" /\ Len(tasks') = Len(tasks) /\ Threw(b)) =>
              /\ pc' = "rejected"
              /\ OnlyError(result')
              /\ pc = "dispatch" => result'.error = TransportError
              /\ pc = "rejected" => result' = result
              /\ \A c \in 1..Len(tasks) : c # b => tasks'[c] = tasks[c]
    /\ (op' = "publishEvents" /\ \E b \in 1..Len(tasks') : tasks'[b].error = TransportError) =>
          pc' = "rejected" /\ OnlyError(result')
    /\ Len(tasks') = Len(tasks) =>
          \A c \in 1..Len(tasks) :
              /\ tasks[c].request # <<>> => tasks'[c].request = tasks[c].request
              /\ tasks[c].st = "done" => tasks'[c] = tasks[c]

C19_TransportThrowRejects == [][C19_Step]_vars

(* rejected by the throw of one batch while another batch of the operation
   was published with accepted entries *)
C19_Witness ==
    /\ pc = "rejected"
    /\ op = "publishEvents"
    /\ result = [error |-> TransportError]
    /\ \E b, c \in 1..Len(tasks) :
            /\ tasks[b].error = TransportError
            /\ tasks[c].st = "done"
            /\ tasks[c].response.Successful # <<>>

----------------------------------------------------------------------------
(* Claims about the absent tenant code, checked under Spec *)

TenantAttributes(attrs) ==
    SelectSeq(attrs, LAMBDA a : a.k = "janis-client")

(* the locator path of the k-th event formatted when no tenant code is
   available *)
CorePath(k) == "topics/core/service-name/MyTopic/2025/03/06/" \o randomValue(k) \o ".json"

(* with no tenant code an oversize event is formatted with the path under
   'core', no step rejects the operation but the failure of a call, and the
   entry published for it carries that path in its locator *)
NoTenantProceeds ==
    /\ \A k \in 1..Len(AllEntries) :
          OverLimit(AllEntries[k]) =>
              AllEntries[k].extraProperties.contentS3Path = CorePath(k)
    /\ (pc = "rejected" /\ topicArn \notin MalformedArns) =>
          result.error \in {RAM_ERROR, SSM_ERROR, TransportError}
    /\ \A at \in Requests :
          ~IsError(RequestAt(at)) =>
              \A k \in EventOf(RequestAt(at)) :
                  (OverLimit(AllEntries[k]) /\ "contentS3Location" \notin FixedKeys(events[k])) =>
                      /\ offload[AllEntries[k].Id].st = "uploaded"
                      /\ Get(JSONparse(RequestAt(at).Message), "contentS3Location").path
                            = CorePath(k)

(* C20 as stated: with no tenant code an oversize event is published with the
   path under 'core' and no janis-client attribute among the outgoing
   attributes *)
C20_NoTenantAttributeAbsent ==
    session = NoSession =>
        /\ NoTenantProceeds
        /\ \A at \in Requests :
              ~IsError(RequestAt(at)) =>
                  \A k \in EventOf(RequestAt(at)) :
                      OverLimit(AllEntries[k]) =>
                          TenantAttributes(RequestAt(at).MessageAttributes) = <<>>

(* C20: with no tenant code an oversize event is published with the path
   under 'core', and the formatter adds no janis-client attribute: the
   outgoing attributes hold one only when the event supplies an attribute of
   that name, with the event's value *)
C20_NoTenantAttributeNotAdded ==
    session = NoSession =>
        /\ NoTenantProceeds
        /\ \A at \in Requests :
              ~IsError(RequestAt(at)) =>
                  \A k \in EventOf(RequestAt(at)) :
                      OverLimit(AllEntries[k]) =>
                          TenantAttributes(RequestAt(at).MessageAttributes) =
                              [i \in 1..Len(TenantAttributes(Event(events[k]).attributes)) |->
                                  Attribute("janis-client", "String",
                                            TenantAttributes(Event(events[k]).attributes)[i].v)]

(* an oversize event without attributes, published with no tenant code after
   its upload: the locator is under 'core' and topicName is the only
   attribute *)
C20_Witness ==
    /\ session = NoSession
    /\ pc = "resolved"
    /\ \E at \in Requests :
          /\ ~IsError(RequestAt(at))
          /\ \E k \in EventOf(RequestAt(at)) :
                /\ events[k] = "big"
                /\ offload[AllEntries[k].Id].st = "uploaded"
                /\ Get(JSONparse(RequestAt(at).Message), "contentS3Location").path = CorePath(k)
          /\ RequestAt(at).MessageAttributes = <<Attribute("topicName", "String", "MyTopic")>>

----------------------------------------------------------------------------
(* C21: when an event of publishEvents exceeds the size limit and the session
   has no clientCode, the operation rejects with the missing-tenant error and
   no destination lookup, upload or publish call is made *)

MISSING_CLIENT_CODE == "MISSING_CLIENT_CODE"

C21_MissingTenantRejects ==
    ( /\ op = "publishEvents"
      /\ session = NoSession
      /\ topicArn \notin MalformedArns
      /\ pc \in {"dispatch", "resolved", "rejected"}
      /\ \E k \in 1..Len(AllEntries) : OverLimit(AllEntries[k]) )
    => /\ pc = "rejected"
       /\ "error" \in DOMAIN result
       /\ result.error = MISSING_CLIENT_CODE
       /\ ramCalls = 0
       /\ ssmCalls = 0
       /\ DOMAIN offload = {}
       /\ Requests = {}

----------------------------------------------------------------------------
(* C22: for every identifier that matches the ARN pattern getTopicNameFromArn
   returns the last ':'-separated part without its trailing '.fifo', so the
   FIFO and the standard ARN of a topic give the same name; for every
   identifier that does not match it raises the invalid-identifier error *)

C22_TopicNameFromArn ==
    op = "getTopicNameFromArn" =>
        \A case \in ArnCases :
            case.text = topicArn.text =>
                IF case.ok
                THEN pc = "resolved" /\ result = [topicName |-> case.name]
                ELSE /\ pc = "rejected"
                     /\ result = [error |-> INVALID_SNS_ARN,
                                   message |-> "Invalid SNS ARN: " \o case.text]

(* the FIFO ARN of the test suite, resolved to the name of the standard one *)
C22_Witness ==
    /\ op = "getTopicNameFromArn"
    /\ topicArn = FifoArn
    /\ pc = "resolved"
    /\ result = [topicName |-> "MyTopic"]

----------------------------------------------------------------------------
(* C23: in the attributes of every formatted entry the derived attributes
   win over user-supplied ones of the same key: topicName is always there
   with the resolved topic name, and janis-client carries the tenant code
   when there is one *)

ValuesOf(attrs, key) ==
    {attrs[i].StringValue : i \in {j \in 1..Len(attrs) : attrs[j].k = key}}

C23_DerivedAttributesWin ==
    \A k \in 1..Len(AllEntries) :
        /\ ValuesOf(AllEntries[k].MessageAttributes, "topicName") = {"MyTopic"}
        /\ session # NoSession =>
              ValuesOf(AllEntries[k].MessageAttributes, "janis-client") = {session}

----------------------------------------------------------------------------
(* C24: when every event of a publishEvent or publishEvents operation is
   within the size limit the operation issues no discovery call, no parameter
   read and no upload: publish calls are the only calls it makes *)



C24_WithinLimitOnlyPublishes ==
    ( /\ op \in {"publishEvent", "publishEvents"}
      /\ \A k \in 1..Len(AllEntries) : ~OverLimit(AllEntries[k]) )
    => /\ ramCalls = 0
       /\ ssmCalls = 0
       /\ cache = EmptyCache
       /\ DOMAIN offload = {}
       /\ \A b \in 1..Len(tasks) : tasks[b].s3Failed = <<>>

(* two batches of within-limit events, both published, no other call made *)
C24_Witness ==
    /\ op = "publishEvents"
    /\ pc = "resolved"
    /\ Len(events) >= 2
    /\ Len(tasks) = 2
    /\ \A k \in 1..Len(AllEntries) : ~OverLimit(AllEntries[k])
    /\ \A b \in 1..Len(tasks) : tasks[b].request # <<>>
    /\ result.successCount = Len(events)
    /\ ramCalls = 0
    /\ ssmCalls = 0

----------------------------------------------------------------------------
(* C25: the serialized size of the entries sent in each publish-batch call,
   each with its identifier, final body, attributes and subject, is at most
   256 KiB, batches with offloaded entries included *)

(* JSON.stringify(entry).length of an entry of PublishBatchRequestEntries *)
SentSize(entry) ==
    ObjectLen(<<Member("Id", StringLen(entry.Id)),
                Member("Message", EmbeddedLen(entry.Message)),
                Member("MessageAttributes", AttributesLen(entry.MessageAttributes))>>
              \o (IF entry.Subject # ""
                  THEN <<Member("Subject", StringLen(entry.Subject))>> ELSE <<>>))

SentBatchSize(request) == SeqSum([i \in 1..Len(request) |-> SentSize(request[i])])

C25_SentBatchAtMost256KiB ==
    op = "publishEvents" =>
        \A b \in 1..Len(tasks) : SentBatchSize(tasks[b].request) <= SNS_MESSAGE_LIMIT_SIZE

----------------------------------------------------------------------------
(* C26: the size estimated for an oversize entry when the batches are formed
   is conservative: whatever destination stores the content, the body sent
   for the entry (locator with path, bucket name and region, and the picked
   fixed properties) is no longer than the estimate (the body with the path
   alone and the fixed properties, plus 90) *)

C26_EstimateIsConservative ==
    op = "publishEvents" =>
        \A at \in Requests :
            \A k \in EventOf(RequestAt(at)) :
                OverLimit(AllEntries[k]) =>
                    TextLen(RequestAt(at).Message) <= EstimatedSize(AllEntries[k])

----------------------------------------------------------------------------
(* C27: an entry over the size limit takes one slot of one batch and adds its
   estimated post-offload size, not its original size, to the running total
   of that batch; it is marked as exceeding the limit and an entry within the
   limit never is; so several oversize entries can share a batch with
   within-limit ones *)

EntryCount(batches) == SeqSum([b \in 1..Len(batches) |-> Len(batches[b])])

(* the step of the loop that formats one event *)
C27_Step ==
    (pc = "parseEvents" /\ Len(events') = Len(events) + 1) =>
        LET open == parsedEvents'[Len(parsedEvents')]
            entry == open[Len(open)]
            opened == Len(parsedEvents') > Len(parsedEvents)
        IN  /\ EntryCount(parsedEvents') = EntryCount(parsedEvents) + 1
            /\ open # <<>>
            /\ entry.Id = ToString(Len(events'))
            /\ entry.limitExceeded <=> OverLimit(entry)
            /\ currentBatchSize' =
                  (IF opened THEN 0 ELSE currentBatchSize)
                  + (IF OverLimit(entry) THEN EstimatedSize(entry) ELSE ParsedEventSize(entry))
            /\ OverLimit(entry) =>
                  currentBatchSize' < (IF opened THEN 0 ELSE currentBatchSize) + ParsedEventSize(entry)

C27_OversizeTakesOneSlot == [][C27_Step]_vars

(* two oversize entries and a within-limit one in the same batch, whose
   running total is below the limit *)
C27_Witness ==
    /\ pc = "parsed"
    /\ Len(parsedEvents) = 1
    /\ Cardinality({i \in 1..Len(parsedEvents[1]) : parsedEvents[1][i].limitExceeded}) = 2
    /\ \E i \in 1..Len(parsedEvents[1]) : ~parsedEvents[1][i].limitExceeded
    /\ currentBatchSize < SNS_MESSAGE_LIMIT_SIZE

----------------------------------------------------------------------------
(* C28: in publishEvents and in publishEvent the publish call that carries
   the locator of an offloaded entry is issued only after an upload of the
   full original content of the entry has succeeded, and the locator names
   the destination that stored it; the publish call of a batch is issued only
   after the offload of every entry of the batch over the limit has settled *)

(* the body handed to uploadContentS3Path, line 227 *)
UploadBody(parsedEvent) == parsedEvent.Message

CarriesLocator(entry) ==
    /\ ~IsError(entry)
    /\ HasKey(JSONparse(entry.Message), "contentS3Location")
    /\ Get(JSONparse(entry.Message), "contentS3Location").t = "loc"

C28_PublishAfterUpload ==
    /\ \A at \in Requests :
          CarriesLocator(RequestAt(at)) =>
              \A k \in EventOf(RequestAt(at)) :
                  LET id == AllEntries[k].Id
                  IN  /\ id \in DOMAIN offload
                      /\ offload[id].st = "uploaded"
                      /\ offload[id].bucketInfo # NoBucket
                      /\ Get(JSONparse(RequestAt(at).Message), "contentS3Location").bucket
                            = offload[id].bucketInfo
                      /\ UploadBody(AllEntries[k]) = JSONstringify(Event(events[k]).content)
    /\ \A b \in 1..Len(tasks) :
          tasks[b].request # <<>> =>
              \A i \in 1..Len(parsedEvents[b]) :
                  NeedsOffload(op, parsedEvents[b][i]) =>
                      /\ parsedEvents[b][i].Id \in DOMAIN offload
                      /\ offload[parsedEvents[b][i].Id].st \in {"uploaded", "failed"}

(* the publish-batch call of a batch issued with the locators of two entries,
   both stored, one of them at the second destination *)
C28_Witness ==
    /\ op = "publishEvents"
    /\ \E b \in 1..Len(tasks) :
          /\ tasks[b].st = "publishing"
          /\ \E i, j \in 1..Len(tasks[b].request) :
                /\ i # j
                /\ CarriesLocator(tasks[b].request[i])
                /\ CarriesLocator(tasks[b].request[j])
                /\ offload[tasks[b].request[i].Id].bucketInfo
                      # offload[tasks[b].request[j].Id].bucketInfo

----------------------------------------------------------------------------
(* C29: the worker of a batch issues the publish-batch call if and only if
   at least one entry is left once the offloads have settled; a batch whose
   entries all failed to upload and an empty batch cause no publish call, and
   publishEvents of an empty list resolves with zero counts and empty lists *)

(* the positions of a batch whose entry is sent: within the limit, or stored *)
Remaining(b) ==
    {i \in 1..Len(parsedEvents[b]) :
        \/ ~parsedEvents[b][i].limitExceeded
        \/ /\ parsedEvents[b][i].Id \in DOMAIN offload
           /\ offload[parsedEvents[b][i].Id].st = "uploaded"}

(* the worker has passed Promise.all: it waits for the transport, has
   returned, or the transport threw *)
PastOffload(b) ==
    \/ tasks[b].st \in {"publishing", "done"}
    \/ tasks[b].st = "rejected" /\ tasks[b].error = TransportError

C29_PublishIffEntryRemains ==
    op = "publishEvents" =>
        /\ \A b \in 1..Len(tasks) :
              /\ tasks[b].st = "publishing" => tasks[b].request # <<>>
              /\ tasks[b].request # <<>> => PastOffload(b)
              /\ PastOffload(b) =>
                    /\ (tasks[b].request # <<>>) <=> (Remaining(b) # {})
                    /\ Len(tasks[b].request) = Cardinality(Remaining(b))
              /\ (tasks[b].st = "done" /\ tasks[b].request = <<>>) =>
                    /\ tasks[b].response.Successful = <<>>
                    /\ Len(tasks[b].response.Failed) = Len(parsedEvents[b])
        /\ (pc = "resolved" /\ events = <<>>) =>
              /\ parsedEvents = << <<>> >>
              /\ Len(tasks) = 1
              /\ tasks[1].request = <<>>
              /\ result = [successCount |-> 0, failedCount |-> 0,
                            success |-> <<>>, failed |-> <<>>]

(* a batch of two entries, neither stored at any destination: the operation
   resolves without a publish call *)
C29_Witness ==
    /\ op = "publishEvents"
    /\ pc = "resolved"
    /\ Len(tasks) = 1
    /\ Len(parsedEvents[1]) = 2
    /\ Remaining(1) = {}
    /\ tasks[1].request = <<>>
    /\ result.successCount = 0
    /\ result.failedCount = 2

(* publishEvents of an empty list, resolved *)
C29_WitnessEmptyList ==
    /\ op = "publishEvents"
    /\ pc = "resolved"
    /\ events = <<>>
    /\ result.successCount = 0

----------------------------------------------------------------------------
(* C30: the first upload attempt for an oversize entry targets the
   destination flagged default in the resolved destination list, whatever its
   position in the list; only after it fails is the next destination in list
   order attempted *)

(* the names of the destinations of the resolved list flagged default *)
FlaggedDefault == {bucketList[i].bucketName : i \in {j \in 1..Len(bucketList) : bucketList[j].default}}

C30_FirstAttemptAtFlaggedDefault ==
    \A id \in DOMAIN offload :
        offload[id].tried # <<>> => offload[id].tried[1] \in FlaggedDefault

(* what the uploader does: the attempts follow the positions of the list *)
C30_AttemptsInListOrder ==
    \A id \in DOMAIN offload :
        \A n \in 1..Len(offload[id].tried) :
            /\ n <= Len(bucketList)
            /\ offload[id].tried[n] = bucketList[n].bucketName

(* the list resolved with the destination flagged default in second place,
   and the entry stored at the second attempt *)
C30_ListOrderWitness ==
    /\ bucketList = <<ProvisionalBucket, DefaultBucket>>
    /\ \E id \in DOMAIN offload :
          /\ offload[id].st = "uploaded"
          /\ offload[id].tried = <<ProvisionalBucket.bucketName, DefaultBucket.bucketName>>
          /\ offload[id].bucketInfo = BucketInfo(DefaultBucket)

----------------------------------------------------------------------------
(* C31: for each oversize entry the fallback destination is attempted only
   if the attempt on the primary failed, each destination is attempted at
   most once, the number of attempts is 1 when the primary stores the body and
   at most the number of destinations (2) otherwise, and no upload is
   attempted after one has succeeded *)

Attempts(id) == offload[id].tried

C31_UploadAttempts ==
    \A id \in DOMAIN offload :
        /\ Len(Attempts(id)) <= 2
        /\ Attempts(id) # <<>> => Len(Attempts(id)) <= Len(bucketList)
        /\ \A i, j \in 1..Len(Attempts(id)) : i # j => Attempts(id)[i] # Attempts(id)[j]
        /\ offload[id].st \in {"lookup", "lookupFailed"} => Attempts(id) = <<>>
        /\ offload[id].st = "uploaded" =>
              /\ offload[id].bucketInfo.bucketName = Attempts(id)[Len(Attempts(id))]
              /\ offload[id].bucketInfo = BucketInfo(bucketList[1]) => Len(Attempts(id)) = 1
        /\ offload[id].st = "failed" =>
              /\ offload[id].bucketInfo = NoBucket
              /\ Len(Attempts(id)) = Len(bucketList)

(* two entries of one operation, one stored at the first attempt and one at
   the second *)
C31_Witness ==
    \E id, other \in DOMAIN offload :
        /\ offload[id].st = "uploaded"
        /\ Len(Attempts(id)) = 1
        /\ offload[other].st = "uploaded"
        /\ Len(Attempts(other)) = 2
        /\ offload[other].bucketInfo = BucketInfo(bucketList[2])

----------------------------------------------------------------------------
(* C32: an upload that failed at every destination for an entry of one batch
   does not prevent, reject or alter the offload and the publish-batch call of
   the other batches of the same publishEvents operation *)

FailedIn(a) ==
    \E i \in 1..Len(parsedEvents[a]) :
        /\ parsedEvents[a][i].Id \in DOMAIN offload
        /\ offload[parsedEvents[a][i].Id].st = "failed"

(* the identifiers of the entries of batch b that are sent, in batch order *)
RemainingIds(b) ==
    LET left == SelectSeq([i \in 1..Len(parsedEvents[b]) |-> i], LAMBDA i : i \in Remaining(b))
    IN  [n \in 1..Len(left) |-> parsedEvents[b][left[n]].Id]

IdsOf(request) == [i \in 1..Len(request) |-> request[i].Id]
IdSet(ids) == {ids[i] : i \in 1..Len(ids)}

C32_FailedUploadLeavesOtherBatches ==
    op = "publishEvents" =>
        \A a, b \in 1..Len(tasks) :
            (a # b /\ FailedIn(a)) =>
                /\ pc = "rejected" => result.error = TransportError
                /\ tasks[b].st = "rejected" => tasks[b].error = TransportError
                /\ \A i \in 1..Len(parsedEvents[b]) :
                      parsedEvents[b][i].limitExceeded =>
                          /\ parsedEvents[b][i].Id \in DOMAIN offload
                          /\ offload[parsedEvents[b][i].Id].st \in {"upload", "uploaded", "failed"}
                /\ PastOffload(b) =>
                      /\ IdSet(IdsOf(tasks[b].request)) = IdSet(RemainingIds(b))
                      /\ Len(tasks[b].request) = Len(RemainingIds(b))
                      /\ \A n \in 1..Len(tasks[b].request) :
                            offload[tasks[b].request[n].Id].st = "uploaded" =>
                                /\ CarriesLocator(tasks[b].request[n])
                                /\ Get(JSONparse(tasks[b].request[n].Message),
                                       "contentS3Location").bucket
                                      = offload[tasks[b].request[n].Id].bucketInfo
                /\ pc = "resolved" =>
                      /\ tasks[b].st = "done"
                      /\ Remaining(b) # {} => tasks[b].request # <<>>
                      /\ Len(tasks[b].response.Successful) + Len(tasks[b].response.Failed)
                            = Len(parsedEvents[b])

(* two batches of one oversize entry each: the upload of the first failed at
   every destination, the second was stored and published *)
C32_Witness ==
    /\ op = "publishEvents"
    /\ pc = "resolved"
    /\ \E a, b \in 1..Len(tasks) :
          /\ a < b
          /\ FailedIn(a)
          /\ Remaining(a) = {}
          /\ Len(tasks[b].request) = 1
          /\ CarriesLocator(tasks[b].request[1])
          /\ Len(tasks[b].response.Successful) = 1
    /\ result.successCount = 1
    /\ result.failedCount = 1

----------------------------------------------------------------------------
(* C33: no request sent to the transport, by publishEvent or publishEvents,
   carries the working fields of the draft entry: limitExceeded and
   extraProperties are absent from every outgoing entry, offloaded or not *)

TransientFields == {"limitExceeded", "extraProperties"}

C33_NoTransientFieldsSent ==
    \A at \in Requests :
        /\ DOMAIN RequestAt(at) \cap TransientFields = {}
        /\ ~IsError(RequestAt(at)) =>
              DOMAIN RequestAt(at) = {"Id", "Message", "MessageAttributes", "Subject"}

(* a publish-batch request with an entry sent as formatted and an offloaded
   one, whose drafts hold both fields *)
C33_Witness ==
    /\ op = "publishEvents"
    /\ \E b \in 1..Len(tasks) :
          /\ tasks[b].st = "publishing"
          /\ \A i \in 1..Len(parsedEvents[b]) :
                TransientFields \subseteq DOMAIN parsedEvents[b][i]
          /\ \E i, j \in 1..Len(tasks[b].request) :
                /\ CarriesLocator(tasks[b].request[i])
                /\ ~IsError(tasks[b].request[j])
                /\ ~CarriesLocator(tasks[b].request[j])

----------------------------------------------------------------------------
(* C34: a failed destination-list lookup is not cached: when an operation is
   rejected because discovery or the parameter read failed, the failed call's
   promise is dropped, and the next operation with an oversize entry issues
   the lookup again, with no clearCache in between: discovery when discovery
   failed, the parameter read (with the discovery answer still cached) when
   the parameter read failed *)

RejectedBy(code) == pc # "rejected" /\ pc' = "rejected" /\ result'.error = code
(* the lookup an entry was awaiting has failed in this step *)
LookupFailedNow ==
    \E id \in DOMAIN offload :
        offload[id].st = "lookup" /\ id \in DOMAIN offload' /\ offload'[id].st = "lookupFailed"

C34_Step ==
    /\ RejectedBy(RAM_ERROR) => cache' = EmptyCache
    /\ RejectedBy(SSM_ERROR) => cache' = [ram |-> "resolved", value |-> "empty"]
    /\ LookupFailedNow =>
          /\ pc' = "rejected"
          /\ cache'.value = "empty"
          /\ cache'.ram = (IF cache.ram = "resolved" THEN "resolved" ELSE "empty")
    /\ (NewlyWaiting /\ cache = EmptyCache) =>
          /\ ramCalls' = ramCalls + 1
          /\ cache' = [ram |-> "pending", value |-> "pending"]
    /\ (NewlyWaiting /\ cache = [ram |-> "resolved", value |-> "empty"]) =>
          /\ ramCalls' = ramCalls
          /\ ssmCalls' = ssmCalls + 1
          /\ cache' = [ram |-> "resolved", value |-> "pending"]

C34_FailedLookupNotCached == [][C34_Step]_vars

(* discovery failed in an earlier operation and was issued again: the second
   discovery and the parameter read succeeded, the entry is stored and the
   operation resolved *)
C34_Witness ==
    /\ pc = "resolved"
    /\ ramCalls = 2
    /\ ssmCalls = 1
    /\ cache = [ram |-> "resolved", value |-> "resolved"]
    /\ \E id \in DOMAIN offload : offload[id].st = "uploaded"

(* the parameter read failed in an earlier operation and was issued again,
   discovery was not *)
C34_WitnessParameterRead ==
    /\ pc = "resolved"
    /\ ramCalls = 1
    /\ ssmCalls = 2
    /\ cache = [ram |-> "resolved", value |-> "resolved"]
    /\ \E id \in DOMAIN offload : offload[id].st = "uploaded"

----------------------------------------------------------------------------
(* C35: in publishEvent, when the event exceeds the size limit and its upload
   fails at every destination, no publish call is made; every publish call
   issued by publishEvent carries a body that is either the serialization of
   the content or the locator body *)

(* the body formatBodyWithContentS3Path gives the entry for the destination
   that stored it *)
LocatorBody(parsedEvent) ==
    JSONstringify(formatBodyWithContentS3Path(parsedEvent,
                      parsedEvent.extraProperties.payloadFixedProperties,
                      parsedEvent.extraProperties.contentS3Path,
                      offload[parsedEvent.Id].bucketInfo))

C35_PublishEventBodyVerbatimOrLocator ==
    op = "publishEvent" =>
        /\ \A id \in DOMAIN offload :
              offload[id].st = "failed" => \A b \in 1..Len(tasks) : tasks[b].request = <<>>
        /\ \A at \in Requests :
              /\ "Message" \in DOMAIN RequestAt(at)
              /\ \/ RequestAt(at).Message = JSONstringify(Event(events[1]).content)
                 \/ /\ AllEntries[1].Id \in DOMAIN offload
                    /\ offload[AllEntries[1].Id].st = "uploaded"
                    /\ RequestAt(at).Message = LocatorBody(AllEntries[1])

(* what publishEvent does send then: the object formatAndUploadEventWithS3Content
   returned, which has an Error and no Message; the transport's answer decides
   how the operation settles *)
C35_ErrorObjectPublished ==
    /\ op = "publishEvent"
    /\ \E id \in DOMAIN offload : offload[id].st = "failed"
    /\ tasks[1].st = "publishing"
    /\ Len(tasks[1].request) = 1
    /\ DOMAIN tasks[1].request[1] = {"Error"}
    /\ tasks[1].request[1].Error.Code = S3_ERROR

----------------------------------------------------------------------------
(* C36: in every publishEvents operation that resolves each input event is
   accounted for exactly once before the transport answers: its identifier is
   in exactly one publish-batch request or among the upload failures with code
   S3_ERROR, never in both and never in neither; the transport reporting each
   entry it received once, successCount + failedCount is the number of events *)

SentAt(id) == {at \in Requests : RequestAt(at).Id = id}
UploadFailedAt(id) ==
    {at \in (1..Len(tasks)) \X (1..MaxEvents + 1) :
        /\ at[2] <= Len(tasks[at[1]].s3Failed)
        /\ tasks[at[1]].s3Failed[at[2]].Id = id
        /\ tasks[at[1]].s3Failed[at[2]].Code = S3_ERROR}

C36_EachEventAccountedOnce ==
    (pc = "resolved" /\ op = "publishEvents") =>
        /\ \A k \in 1..Len(events) :
              /\ Cardinality(SentAt(ToString(k))) + Cardinality(UploadFailedAt(ToString(k))) = 1
              /\ UploadFailedAt(ToString(k)) # {} =>
                    \E n \in 1..Len(result.failed) :
                        result.failed[n].Id = ToString(k) /\ result.failed[n].Code = S3_ERROR
        /\ \A at \in Requests : NumberOf(RequestAt(at).Id) \in 1..Len(events)
        /\ result.successCount + result.failedCount = Len(events)

(* three events in two batches, resolved: one of the first batch failed at
   every destination, the other two were sent *)
C36_Witness ==
    /\ pc = "resolved"
    /\ op = "publishEvents"
    /\ Len(events) = MaxEvents
    /\ Len(tasks) = 2
    /\ \E k \in 1..Len(events) : UploadFailedAt(ToString(k)) # {}
    /\ tasks[1].request # <<>>
    /\ tasks[2].request # <<>>
    /\ result.successCount + result.failedCount = MaxEvents

----------------------------------------------------------------------------
(* C37: for every non-empty input parseEvents produces no empty batch: every
   batch handed to the dispatcher holds at least one entry *)

C37_NoEmptyBatch ==
    (op = "publishEvents" /\ pc = "parsed" /\ events # <<>>) =>
        \A b \in 1..Len(parsedEvents) : parsedEvents[b] # <<>>

(* what parseEvents returns for one event whose size estimate is over the
   limit: the batch it started with, left empty, and one with the entry *)
C37_EmptyLeadingBatch ==
    /\ pc = "parsed"
    /\ events = <<"bigfixed">>
    /\ Len(parsedEvents) = 2
    /\ parsedEvents[1] = <<>>
    /\ Len(parsedEvents[2]) = 1
    /\ parsedEvents[2][1].Id = "1"
    /\ EstimatedSize(parsedEvents[2][1]) > SNS_MESSAGE_LIMIT_SIZE

----------------------------------------------------------------------------
(* C38: for every offloaded entry the locator path is computed once, when the
   event is formatted, and the same path is the storage key of every upload
   attempt, the path of the size estimate and the path of the locator in the
   outgoing body; the uploaded body is the serialization of the full original
   content *)

(* the key handed to uploadContentS3Path, line 227, which hands it to each
   uploadToBucket *)
UploadKey(parsedEvent) == parsedEvent.extraProperties.contentS3Path

C38_OnePathPerEntry ==
    /\ pc # "idle" => randomDraws = Len(AllEntries)
    /\ \A k \in 1..Len(AllEntries) :
          LET entry == AllEntries[k]
              path == getContentS3Path(session, "MyTopic", k)
          IN  /\ entry.extraProperties.contentS3Path = path
              /\ \A j \in 1..Len(AllEntries) :
                    j # k => AllEntries[j].extraProperties.contentS3Path # path
              /\ OverLimit(entry) =>
                    /\ UploadKey(entry) = path
                    /\ UploadBody(entry) = JSONstringify(Event(events[k]).content)
    /\ (pc = "parseEvents" /\ parsedEvents # <<>>) =>
          LET open == parsedEvents[Len(parsedEvents)]
          IN  (Len(open) = 1 /\ open[1].limitExceeded) =>
                  currentBatchSize =
                      JsonLen(formatBodyWithContentS3Path(open[1],
                                  open[1].extraProperties.payloadFixedProperties,
                                  getContentS3Path(session, "MyTopic", Len(events)), NoBucket))
                      + estimatedBucketInfoSize
    /\ \A at \in Requests :
          CarriesLocator(RequestAt(at)) =>
              \A k \in EventOf(RequestAt(at)) :
                  Get(JSONparse(RequestAt(at).Message), "contentS3Location").path
                      = getContentS3Path(session, "MyTopic", k)

(* a publish-batch request with the locators of two entries, the second
   stored at its second attempt: each carries the path of its own entry *)
C38_Witness ==
    /\ op = "publishEvents"
    /\ \E b \in 1..Len(tasks) :
          /\ Len(tasks[b].request) = 2
          /\ CarriesLocator(tasks[b].request[1])
          /\ CarriesLocator(tasks[b].request[2])
          /\ Len(offload[tasks[b].request[2].Id].tried) = 2
          /\ Get(JSONparse(tasks[b].request[1].Message), "contentS3Location").path
                # Get(JSONparse(tasks[b].request[2].Message), "contentS3Location").path

----------------------------------------------------------------------------
(* C39: provided every collaborator call (lookup, upload, publish) settles in
   the end, every publishEvents and publishEvent operation settles in the end,
   resolved with a result or rejected, for any number of batches, more than 25
   included; no batch is left undispatched when the operation resolves *)

Settled == pc \in {"resolved", "rejected"}

C39_EveryOperationSettles ==
    /\ (op # "none") ~> Settled
    /\ [](pc = "resolved" =>
            /\ result # NoResult
            /\ Len(tasks) = Len(parsedEvents)
            /\ \A b \in 1..Len(tasks) : tasks[b].st = "done")
    /\ [](pc = "rejected" => "error" \in DOMAIN result)

(* an operation of more batches than the ceiling, one entry offloaded,
   resolved with every batch answered *)
C39_Witness ==
    /\ op = "publishEvents"
    /\ pc = "resolved"
    /\ Len(tasks) > MAX_CONCURRENCY
    /\ \E id \in DOMAIN offload : offload[id].st = "uploaded"
    /\ result.successCount = Len(events)

(* the sizes JSON.stringify gives for the events of the test suite *)
SizeCheck ==
    LET f(kind, idx, client) ==
            ParsedEventSize(formatSNSEvent(Event(kind), client, "MyTopic", idx, 1))
    IN  /\ f("small", 1, "defaultClient") = 346
        /\ f("half", 1, "defaultClient") = 153894
        /\ f("big", 1, NoSession) = 262411 + 6
        /\ f("small", 0, "defaultClient") = 337
        /\ Len(getContentS3Path("defaultClient", "MyTopic", 1)) = 71
====
